---- MODULE Spec2Model ----
(***************************************************************************)
(* A model of pyunicodegame (src/src/pyunicodegame/__init__.py): the       *)
(* EffectSprite and Sprite update state machines, the Window sprite list   *)
(* and put clipping, the window registry and the frame loop of run().      *)
(*                                                                         *)
(* Python floats are modelled by exact rationals <<n, d>> (d > 0, lowest   *)
(* terms), so a statement confirmed here is a statement about the real     *)
(* arithmetic the floats approximate.                                      *)
(***************************************************************************)
EXTENDS Integers, Sequences, FiniteSets, TLC

VARIABLES
    effect,     \* the EffectSprite under test (a record of its fields)
    total,      \* history: sum of the dt of every update call on effect
    reached,    \* history: total >= fade_time held after some update call
    created,    \* history: effect as create_effect returned it
    ecalls,     \* history: number of update calls on effect so far
    eprev,      \* history: effect before the last update call on it
    edt,        \* history: the dt of the last update call on effect
    sprite,     \* the Sprite under test (a record of its fields)
    cell,       \* <<cell_width, cell_height>> passed to sprite.update
    sprev,      \* history: sprite before the last call on it
    scall,      \* history: the last call on sprite and its arguments
    smoves,     \* history: number of move_to calls and move_speed
                \* assignments on sprite so far
    heap,       \* the sprite objects the client holds: id -> [kind, obj]
    wsprites,   \* Window._sprites of each window: a list of object ids
    wprev,      \* history: <<heap, wsprites>> before the last Window call
    wcall,      \* history: the last Window call and its arguments
    wcalls,     \* history: number of Window calls so far
    win,        \* the Window drawn on (a record of its fields and its surface)
    pprev,      \* history: win before the last drawing call
    pcall,      \* history: the last drawing call and its arguments
    pcalls,     \* history: number of drawing calls so far
    windows,    \* _windows: the registry, a list of Windows in insertion order
    running,    \* _running
    pc,         \* where run() stands: the step it takes next
    cb,         \* the callbacks run() was given: [update, render, on_key]
    frame,      \* _render_surface: the blits made onto it since its last fill
    displayed,  \* the display surface: the frame last presented
    tlog,       \* history: the steps taken so far in the current tick
    stopped,    \* history: "no", or when the stop was signalled
    nextId,     \* history: identity given to the next Window object
    evs,        \* history: events handled so far in the current tick
    ops,        \* history: number of client calls so far
    cleared,    \* history: the Windows the clear loop of this tick filled
    lastMut,    \* history: where the registry last gained or lost a Window
                \* in this tick ("none": not since the tick started)
    rprev,      \* history: the registry before the last registry call
    rcall,      \* history: the last registry call, its arguments and outcome
    painted,    \* history: the Windows the client has drawn on so far
    pattern,    \* the pattern string given to a builder: a list of characters
    pcolors,    \* the char_colors argument given with it
    pout,       \* the last builder call, its arguments and what it returned
    dobj,       \* the sprite object drawn: [kind, obj], obj with its frames
    dcell,      \* <<_cell_width, _cell_height>> of the window it is drawn on
    dprev,      \* history: dobj before the last call on it
    dout,       \* history: the last call on dobj, and the pixel-level
                \* draws a draw call issued
    dn          \* history: number of calls on dobj so far

effVars == <<effect, total, reached, created, ecalls, eprev, edt>>

sprVars == <<sprite, cell, sprev, scall, smoves>>

winVars == <<heap, wsprites, wprev, wcall, wcalls>>

putVars == <<win, pprev, pcall, pcalls>>

runVars == <<windows, running, pc, cb, frame, displayed, tlog, stopped,
             nextId, evs, ops, cleared, lastMut>>

regVars == <<rprev, rcall>>

clrVars == <<painted>>

patVars == <<pattern, pcolors, pout>>

drwVars == <<dobj, dcell, dprev, dout, dn>>

vars == <<effVars, sprVars, winVars, putVars, runVars, regVars, clrVars, patVars,
          drwVars>>

----------------------------------------------------------------------------
(* Bounds *)

\* update calls on the EffectSprite per behaviour
MaxUpdates == 4

\* resolution of time for the EffectSprite: dt is a multiple of 1/TicksPerSec s
TicksPerSec == 2

\* move_to calls and move_speed assignments on the Sprite per behaviour
MaxMoves == 2

\* add_sprite / remove_sprite / update_sprites calls per behaviour
MaxWinCalls == 4

\* drawing calls (put) on the window per behaviour
MaxPuts == 2

\* longest text given to put_string
MaxText == 2
\* put_string calls on the window drawn on
MaxStrings == 1

\* longest pattern string given to create_sprite and create_effect
MaxPattern == 5

\* update and draw calls on the sprite object drawn
MaxDraws == 3

\* client calls (quit, create_window, ...) made from callbacks per behaviour
MaxClientOps == 3

\* registry calls (create_window, get_window, remove_window) made before
\* run() per behaviour
MaxRegCalls == 3

\* events delivered by pygame.event.get() in one tick
MaxEvents == 2

\* frames per second of the loop's clock: a Sprite's dt is a multiple of
\* 1/FPS s and its visual position a multiple of 1/FPS px
FPS == 60

----------------------------------------------------------------------------
(* Exact rational arithmetic standing for float arithmetic *)

Abs(n) == IF n < 0 THEN -n ELSE n

RECURSIVE GCD(_, _)
GCD(a, b) == IF b = 0 THEN a ELSE GCD(b, a % b)

\* the rational n/d in lowest terms with a positive denominator
Rat(n, d) ==
    LET s == IF d < 0 THEN -1 ELSE 1
        g == GCD(Abs(n), Abs(d))
    IN  <<(s * n) \div g, (s * d) \div g>>

RInt(n) == <<n, 1>>

RAdd(a, b) ==
    LET g == GCD(a[2], b[2])
        l == (a[2] \div g) * b[2]
    IN  Rat(a[1] * (l \div a[2]) + b[1] * (l \div b[2]), l)

RMul(a, b) ==
    LET g1 == GCD(Abs(a[1]), b[2])
        g2 == GCD(Abs(b[1]), a[2])
    IN  Rat((a[1] \div g1) * (b[1] \div g2), (a[2] \div g2) * (b[2] \div g1))

RLess(a, b) == a[1] * b[2] < b[1] * a[2]

RLeq(a, b) == a[1] * b[2] <= b[1] * a[2]

RECURSIVE IPow(_, _)
IPow(b, k) == IF k = 0 THEN 1 ELSE b * IPow(b, k - 1)

\* the exact k-th root of n (n is a perfect k-th power wherever this is used)
IRoot(n, k) == CHOOSE r \in 0..n : IPow(r, k) = n

\* base ** e for rationals base > 0 and e = p/q: the q-th root raised to p
RExp(base, e) ==
    LET rn == IRoot(base[1], e[2])
        rd == IRoot(base[2], e[2])
    IN  IF e[1] >= 0
        THEN <<IPow(rn, e[1]), IPow(rd, e[1])>>
        ELSE <<IPow(rd, -e[1]), IPow(rn, -e[1])>>

----------------------------------------------------------------------------
(* EffectSprite *)

\* EffectSprite.__init__: the defaults of a fresh effect sprite
EffectSprite_init ==
    [ visible |-> TRUE, alive |-> TRUE,
      x |-> RInt(0), y |-> RInt(0),
      vx |-> RInt(0), vy |-> RInt(0),
      drag |-> RInt(1),
      fade_time |-> RInt(0), fade_elapsed |-> RInt(0),
      initial_alpha |-> 255 ]

\* create_effect on a non-blank pattern: construct, then assign the arguments
create_effect(x, y, vx, vy, drag, fade_time) ==
    [ EffectSprite_init EXCEPT
        !.x = x, !.y = y, !.vx = vx, !.vy = vy,
        !.drag = drag, !.fade_time = fade_time ]

\* EffectSprite.update as it would be with the fade test made without the
\* fade_time > 0 guard: a sprite that never fades dies on its first update
EffectSprite_update_unguarded_fade(e, dt) ==
    IF ~e.alive THEN e
    ELSE
      LET moved == [ e EXCEPT !.x = RAdd(e.x, RMul(e.vx, dt)),
                              !.y = RAdd(e.y, RMul(e.vy, dt)) ]
          decay == RExp(e.drag, dt)
          dragged ==
              IF RLess(e.drag, RInt(1)) /\ RLess(RInt(0), e.drag)
              THEN [ moved EXCEPT !.vx = RMul(moved.vx, decay),
                                  !.vy = RMul(moved.vy, decay) ]
              ELSE moved
          el == RAdd(dragged.fade_elapsed, dt)
      IN  IF RLeq(e.fade_time, el)
          THEN [ dragged EXCEPT !.fade_elapsed = el,
                                !.alive = FALSE, !.visible = FALSE ]
          ELSE [ dragged EXCEPT !.fade_elapsed = el ]

\* EffectSprite.update as it would be if aliveness were recomputed from the
\* elapsed fade time on every call, with no early return for a dead sprite
EffectSprite_update_resurrects(e, dt) ==
    LET moved == [ e EXCEPT !.x = RAdd(e.x, RMul(e.vx, dt)),
                            !.y = RAdd(e.y, RMul(e.vy, dt)) ]
    IN  IF RLess(RInt(0), e.fade_time)
        THEN LET el == RAdd(moved.fade_elapsed, dt)
                 on == RLess(el, e.fade_time)
             IN  [ moved EXCEPT !.fade_elapsed = el,
                                !.alive = on, !.visible = on ]
        ELSE moved

\* EffectSprite.update as it would be with the alive test made after the
\* velocity is applied: a dead sprite keeps drifting
EffectSprite_update_moves_dead(e, dt) ==
    LET moved == [ e EXCEPT !.x = RAdd(e.x, RMul(e.vx, dt)),
                            !.y = RAdd(e.y, RMul(e.vy, dt)) ]
        decay == RExp(e.drag, dt)
        dragged ==
            IF RLess(e.drag, RInt(1)) /\ RLess(RInt(0), e.drag)
            THEN [ moved EXCEPT !.vx = RMul(moved.vx, decay),
                                !.vy = RMul(moved.vy, decay) ]
            ELSE moved
    IN  IF ~e.alive THEN moved
        ELSE IF RLess(RInt(0), e.fade_time)
        THEN LET el == RAdd(dragged.fade_elapsed, dt)
             IN  IF RLeq(e.fade_time, el)
                 THEN [ dragged EXCEPT !.fade_elapsed = el,
                                       !.alive = FALSE, !.visible = FALSE ]
                 ELSE [ dragged EXCEPT !.fade_elapsed = el ]
        ELSE dragged

\* EffectSprite.update as it would be with a linear, per-call decay factor
\* 1 - (1 - drag) * dt in place of drag ** dt
EffectSprite_update_linear_drag(e, dt) ==
    IF ~e.alive THEN e
    ELSE
      LET moved == [ e EXCEPT !.x = RAdd(e.x, RMul(e.vx, dt)),
                              !.y = RAdd(e.y, RMul(e.vy, dt)) ]
          decay == RAdd(RInt(1), RMul(RAdd(e.drag, RInt(-1)), dt))
          dragged ==
              IF RLess(e.drag, RInt(1)) /\ RLess(RInt(0), e.drag)
              THEN [ moved EXCEPT !.vx = RMul(moved.vx, decay),
                                  !.vy = RMul(moved.vy, decay) ]
              ELSE moved
      IN  IF RLess(RInt(0), e.fade_time)
          THEN LET el == RAdd(dragged.fade_elapsed, dt)
               IN  IF RLeq(e.fade_time, el)
                   THEN [ dragged EXCEPT !.fade_elapsed = el,
                                         !.alive = FALSE, !.visible = FALSE ]
                   ELSE [ dragged EXCEPT !.fade_elapsed = el ]
          ELSE dragged

\* EffectSprite.update as it would be with the fade test written > for >=
EffectSprite_update_strict_fade(e, dt) ==
    IF ~e.alive THEN e
    ELSE
      LET moved == [ e EXCEPT !.x = RAdd(e.x, RMul(e.vx, dt)),
                              !.y = RAdd(e.y, RMul(e.vy, dt)) ]
          decay == RExp(e.drag, dt)
          dragged ==
              IF RLess(e.drag, RInt(1)) /\ RLess(RInt(0), e.drag)
              THEN [ moved EXCEPT !.vx = RMul(moved.vx, decay),
                                  !.vy = RMul(moved.vy, decay) ]
              ELSE moved
      IN  IF RLess(RInt(0), e.fade_time)
          THEN LET el == RAdd(dragged.fade_elapsed, dt)
               IN  IF RLess(e.fade_time, el)
                   THEN [ dragged EXCEPT !.fade_elapsed = el,
                                         !.alive = FALSE, !.visible = FALSE ]
                   ELSE [ dragged EXCEPT !.fade_elapsed = el ]
          ELSE dragged

\* EffectSprite.update(dt, cell_width, cell_height); the cell size is unused
EffectSprite_update(e, dt) ==
    IF ~e.alive THEN e
    ELSE
      LET moved == [ e EXCEPT !.x = RAdd(e.x, RMul(e.vx, dt)),
                              !.y = RAdd(e.y, RMul(e.vy, dt)) ]
          decay == RExp(e.drag, dt)
          dragged ==
              IF RLess(e.drag, RInt(1)) /\ RLess(RInt(0), e.drag)
              THEN [ moved EXCEPT !.vx = RMul(moved.vx, decay),
                                  !.vy = RMul(moved.vy, decay) ]
              ELSE moved
      IN  IF RLess(RInt(0), e.fade_time)
          THEN LET el == RAdd(dragged.fade_elapsed, dt)
               IN  IF RLeq(e.fade_time, el)
                   THEN [ dragged EXCEPT !.fade_elapsed = el,
                                         !.alive = FALSE, !.visible = FALSE ]
                   ELSE [ dragged EXCEPT !.fade_elapsed = el ]
          ELSE dragged

\* the arguments the effect sprite is created with, and the step sizes
EffectPositions == { <<RInt(0), RInt(0)>>, <<Rat(5, 2), RInt(-1)>> }
EffectVelocities == { <<RInt(10), RInt(0)>>, <<RInt(-3), RInt(4)>> }
DragRoots == { <<1, 2>>, <<2, 3>>, <<1, 1>>, <<3, 2>> }
Drags == { <<IPow(r[1], TicksPerSec), IPow(r[2], TicksPerSec)>> : r \in DragRoots }
FadeTimes == { RInt(0), Rat(1, TicksPerSec), Rat(3, TicksPerSec) }
EffectDts == { Rat(n, TicksPerSec) : n \in {-1, 0, 1, 2, TicksPerSec} }

EffectIdle ==
    /\ effect = EffectSprite_init
    /\ total = RInt(0)
    /\ reached = FALSE
    /\ created = EffectSprite_init
    /\ ecalls = 0
    /\ eprev = EffectSprite_init
    /\ edt = RInt(0)

EffectInit ==
    /\ \E p \in EffectPositions, v \in EffectVelocities,
          d \in Drags, f \in FadeTimes :
          effect = create_effect(p[1], p[2], v[1], v[2], d, f)
    /\ total = RInt(0)
    /\ reached = FALSE
    /\ created = effect
    /\ ecalls = 0
    /\ eprev = effect
    /\ edt = RInt(0)

\* one call effect.update(dt, cw, ch)
EffectUpdate ==
    /\ ecalls < MaxUpdates
    /\ \E dt \in EffectDts :
          /\ effect' = EffectSprite_update(effect, dt)
          /\ total' = RAdd(total, dt)
          /\ edt' = dt
    /\ eprev' = effect
    /\ reached' = (reached \/ RLeq(effect.fade_time, total'))
    /\ ecalls' = ecalls + 1
    /\ UNCHANGED created

----------------------------------------------------------------------------
(* Sprite *)

\* math.sqrt on fixed-point values, rounded to the nearest unit
RECURSIVE SqrtFloor(_, _, _)
SqrtFloor(n, lo, hi) ==
    IF lo >= hi THEN lo
    ELSE LET mid == (lo + hi + 1) \div 2
         IN  IF mid * mid <= n THEN SqrtFloor(n, mid, hi)
                               ELSE SqrtFloor(n, lo, mid - 1)

Sqrt(n) ==
    LET r == SqrtFloor(n, 0, 46340)
    IN  IF n - r * r > r THEN r + 1 ELSE r

\* a / b rounded to the nearest unit (b > 0), halves away from zero
RoundDiv(a, b) ==
    IF a >= 0 THEN (2 * a + b) \div (2 * b)
              ELSE -((2 * (-a) + b) \div (2 * b))

Min(a, b) == IF a <= b THEN a ELSE b

\* Sprite.__init__: logical and visual position at the origin, teleporting
Sprite_init ==
    [ visible |-> TRUE, x |-> 0, y |-> 0,
      visual_x |-> 0, visual_y |-> 0, move_speed |-> 0 ]

\* Sprite.move_to as it would be if it moved the visual position along with
\* the logical one (cell size 10 x 20)
Sprite_move_to_snap(s, x, y) ==
    [ s EXCEPT !.x = x, !.y = y,
               !.visual_x = x * 10 * FPS, !.visual_y = y * 20 * FPS ]

\* Sprite.move_to as it would be with the cell clamped to non-negative
\* coordinates (a bounds validation the code does not have)
Sprite_move_to_clamped(s, x, y) ==
    [ s EXCEPT !.x = IF x < 0 THEN 0 ELSE x, !.y = IF y < 0 THEN 0 ELSE y ]

\* Sprite.move_to(x, y)
Sprite_move_to(s, x, y) == [ s EXCEPT !.x = x, !.y = y ]

\* the pixel position of the logical position, in units of 1/FPS px
TargetOf(s, cw, ch) == << s.x * cw * FPS, s.y * ch * FPS >>

\* Sprite.update as it would be without the cap min(speed_px * dt, distance):
\* the step is speed_px * dt however near the target is
Sprite_update_uncapped(s, n, cw, ch) ==
    LET target_px == s.x * cw * FPS
        target_py == s.y * ch * FPS
        dx == target_px - s.visual_x
        dy == target_py - s.visual_y
        distance == Sqrt(dx * dx + dy * dy)
        speed_px == s.move_speed * cw
        move_dist == speed_px * n
    IN  IF s.move_speed <= 0
        THEN [ s EXCEPT !.visual_x = target_px, !.visual_y = target_py ]
        ELSE IF 4 * (dx * dx + dy * dy) > FPS * FPS
        THEN [ s EXCEPT
                 !.visual_x = s.visual_x + RoundDiv(dx * move_dist, distance),
                 !.visual_y = s.visual_y + RoundDiv(dy * move_dist, distance) ]
        ELSE [ s EXCEPT !.visual_x = target_px, !.visual_y = target_py ]

\* Sprite.update as it would be with the teleport test written < for <=:
\* a sprite of speed 0 takes the gliding branch, with steps of length 0
Sprite_update_strict_teleport(s, n, cw, ch) ==
    LET target_px == s.x * cw * FPS
        target_py == s.y * ch * FPS
        dx == target_px - s.visual_x
        dy == target_py - s.visual_y
        distance == Sqrt(dx * dx + dy * dy)
        speed_px == s.move_speed * cw
        move_dist == Min(speed_px * n, distance)
    IN  IF s.move_speed < 0
        THEN [ s EXCEPT !.visual_x = target_px, !.visual_y = target_py ]
        ELSE IF 4 * (dx * dx + dy * dy) > FPS * FPS
        THEN [ s EXCEPT
                 !.visual_x = s.visual_x + RoundDiv(dx * move_dist, distance),
                 !.visual_y = s.visual_y + RoundDiv(dy * move_dist, distance) ]
        ELSE [ s EXCEPT !.visual_x = target_px, !.visual_y = target_py ]

\* Sprite.update(dt, cell_width, cell_height), dt = n/FPS seconds
Sprite_update(s, n, cw, ch) ==
    LET target_px == s.x * cw * FPS
        target_py == s.y * ch * FPS
        dx == target_px - s.visual_x
        dy == target_py - s.visual_y
        distance == Sqrt(dx * dx + dy * dy)
        speed_px == s.move_speed * cw
        move_dist == Min(speed_px * n, distance)
    IN  IF s.move_speed <= 0
        THEN [ s EXCEPT !.visual_x = target_px, !.visual_y = target_py ]
        ELSE IF 4 * (dx * dx + dy * dy) > FPS * FPS
        THEN [ s EXCEPT
                 !.visual_x = s.visual_x + RoundDiv(dx * move_dist, distance),
                 !.visual_y = s.visual_y + RoundDiv(dy * move_dist, distance) ]
        ELSE [ s EXCEPT !.visual_x = target_px, !.visual_y = target_py ]

\* the inputs: cell sizes of the bundled fonts, speeds, cells and step sizes
CellSizes == { <<6, 13>>, <<10, 20>> }
MoveSpeeds == { -5, 0, 20, 45 }
MoveCells == { <<-1, 0>>, <<2, 0>>, <<0, 1>>, <<2, 1>> }
SpriteDts == { 0, 1, 2 }

SpriteIdle ==
    /\ sprite = Sprite_init
    /\ cell = <<10, 20>>
    /\ sprev = Sprite_init
    /\ scall = [ op |-> "init" ]
    /\ smoves = 0

SpriteInit ==
    /\ \E v \in MoveSpeeds : sprite = [ Sprite_init EXCEPT !.move_speed = v ]
    /\ cell \in CellSizes
    /\ sprev = sprite
    /\ scall = [ op |-> "init" ]
    /\ smoves = 0

\* one call sprite.move_to(x, y)
SpriteMoveTo ==
    /\ smoves < MaxMoves
    /\ \E c \in MoveCells :
          /\ sprite' = Sprite_move_to(sprite, c[1], c[2])
          /\ scall' = [ op |-> "move_to", x |-> c[1], y |-> c[2] ]
    /\ sprev' = sprite
    /\ smoves' = smoves + 1
    /\ UNCHANGED cell

\* sprite._move_speed = v, by the client
SpriteSetSpeed ==
    /\ smoves < MaxMoves
    /\ \E v \in MoveSpeeds :
          /\ v # sprite.move_speed
          /\ sprite' = [ sprite EXCEPT !.move_speed = v ]
          /\ scall' = [ op |-> "set_speed", v |-> v ]
    /\ sprev' = sprite
    /\ smoves' = smoves + 1
    /\ UNCHANGED cell

\* one call sprite.update(dt, cell_width, cell_height)
SpriteUpdate ==
    /\ \E n \in SpriteDts :
          /\ sprite' = Sprite_update(sprite, n, cell[1], cell[2])
          /\ scall' = [ op |-> "update", dt |-> n ]
    /\ sprev' = sprite
    /\ UNCHANGED <<cell, smoves>>

----------------------------------------------------------------------------
(* Window: the sprite list *)

\* the windows of this part of the model and their cell sizes
\* (_cell_width, _cell_height), fixed when a window is created
WinNames == { "w1", "w2" }
WinCell(w) == IF w = "w1" THEN <<10, 20>> ELSE <<6, 13>>

\* the sprite objects the client has created: one Sprite gliding to cell
\* (2, 1), one EffectSprite that fades within a step, one that never fades
HeapInit ==
    [ i \in 1..3 |->
        CASE i = 1 -> [ kind |-> "Sprite",
                        obj |-> Sprite_move_to(
                                  [ Sprite_init EXCEPT !.move_speed = 20 ], 2, 1) ]
          [] i = 2 -> [ kind |-> "EffectSprite",
                        obj |-> create_effect(RInt(0), RInt(0), RInt(10), RInt(0),
                                              RInt(1), Rat(1, TicksPerSec)) ]
          [] OTHER -> [ kind |-> "EffectSprite",
                        obj |-> create_effect(RInt(1), RInt(1), RInt(0), RInt(-3),
                                              RInt(1), RInt(0)) ] ]

WinDts == { Rat(1, 2 * TicksPerSec), RInt(1) }

\* sprite.update(dt, cell_width, cell_height) on either class of sprite
update(o, dt, cw, ch) ==
    IF o.kind = "EffectSprite"
    THEN [ o EXCEPT !.obj = EffectSprite_update(o.obj, dt) ]
    ELSE [ o EXCEPT !.obj = Sprite_update(o.obj, (dt[1] * FPS) \div dt[2], cw, ch) ]

\* the loop of update_sprites: update is called on each entry of the list in
\* turn (an object listed twice is updated twice)
RECURSIVE UpdateAll(_, _, _, _, _)
UpdateAll(h, list, dt, cw, ch) ==
    IF list = <<>> THEN h
    ELSE UpdateAll([ h EXCEPT ![Head(list)] = update(h[Head(list)], dt, cw, ch) ],
                   Tail(list), dt, cw, ch)

\* hasattr(s, 'alive') and not s.alive
IsDead(o) == o.kind = "EffectSprite" /\ ~o.obj.alive

\* Window.add_sprite(sprite)
Window_add_sprite(list, s) == Append(list, s)

\* list.remove: the first occurrence goes
RECURSIVE ListRemove(_, _)
ListRemove(list, s) ==
    IF list = <<>> THEN <<>>
    ELSE IF Head(list) = s THEN Tail(list)
    ELSE <<Head(list)>> \o ListRemove(Tail(list), s)

\* Window.remove_sprite as it would be if the entry were overwritten by the
\* last one and the list shortened (a removal that does not keep the order)
Window_remove_sprite_swap(list, s) ==
    IF \E i \in 1..Len(list) : list[i] = s
    THEN LET i == CHOOSE k \in 1..Len(list) :
                    list[k] = s /\ \A j \in 1..(k - 1) : list[j] # s
             n == Len(list)
         IN  SubSeq([ list EXCEPT ![i] = list[n] ], 1, n - 1)
    ELSE list

\* Window.remove_sprite(sprite)
Window_remove_sprite(list, s) ==
    IF \E i \in 1..Len(list) : list[i] = s THEN ListRemove(list, s) ELSE list

\* list.remove(x) raises ValueError when x is not in the list
ListRemoveRaises(list, s) == \A i \in 1..Len(list) : list[i] # s

\* Window.remove_sprite(sprite): whether the call raises
Window_remove_sprite_raises(list, s) ==
    IF \E i \in 1..Len(list) : list[i] = s
    THEN ListRemoveRaises(list, s) ELSE FALSE

\* the loop of draw_sprites: the draw calls made, in order, after calls
RECURSIVE DrawAll(_, _, _)
DrawAll(h, list, calls) ==
    IF list = <<>> THEN calls
    ELSE DrawAll(h, Tail(list),
                 IF h[Head(list)].obj.visible
                 THEN Append(calls, Head(list)) ELSE calls)

\* Window.draw_sprites() as it would be without the test of sprite.visible
Window_draw_sprites_all(h, list) == list

\* Window.draw_sprites(): the sprites draw is called on, in call order
\* (Sprite.draw and EffectSprite.draw read the sprite and assign nothing)
Window_draw_sprites(h, list) == DrawAll(h, list, <<>>)

\* Window.update_sprites(dt) as it would be if the dead were filtered out
\* before the sprites are updated
Window_update_sprites_filter_first(h, list, dt, cw, ch) ==
    LET kept == SelectSeq(list, LAMBDA s : ~IsDead(h[s]))
    IN  << UpdateAll(h, kept, dt, cw, ch), kept >>

\* Window.update_sprites(dt): the heap and the list it leaves
Window_update_sprites(h, list, dt, cw, ch) ==
    LET h2 == UpdateAll(h, list, dt, cw, ch)
    IN  << h2, SelectSeq(list, LAMBDA s : ~IsDead(h2[s])) >>

WinIdle ==
    /\ heap = HeapInit
    /\ wsprites = [ w \in WinNames |-> <<>> ]
    /\ wprev = << heap, wsprites >>
    /\ wcall = [ op |-> "init" ]
    /\ wcalls = 0

WinInit == WinIdle

\* one call window.add_sprite(sprite)
WinAddSprite ==
    /\ wcalls < MaxWinCalls
    /\ \E w \in WinNames, s \in DOMAIN heap :
          /\ wsprites' = [ wsprites EXCEPT ![w] = Window_add_sprite(@, s) ]
          /\ wcall' = [ op |-> "add_sprite", w |-> w, s |-> s, ret |-> s ]
    /\ wprev' = << heap, wsprites >>
    /\ wcalls' = wcalls + 1
    /\ UNCHANGED heap

\* one call window.remove_sprite(sprite)
WinRemoveSprite ==
    /\ wcalls < MaxWinCalls
    /\ \E w \in WinNames, s \in DOMAIN heap :
          /\ wsprites' = [ wsprites EXCEPT ![w] = Window_remove_sprite(@, s) ]
          /\ wcall' = [ op |-> "remove_sprite", w |-> w, s |-> s,
                        raised |-> Window_remove_sprite_raises(wsprites[w], s) ]
    /\ wprev' = << heap, wsprites >>
    /\ wcalls' = wcalls + 1
    /\ UNCHANGED heap

\* one call window.update_sprites(dt)
WinUpdateSprites ==
    /\ wcalls < MaxWinCalls
    /\ \E w \in WinNames, dt \in WinDts :
          LET r == Window_update_sprites(heap, wsprites[w], dt,
                                         WinCell(w)[1], WinCell(w)[2])
          IN  /\ heap' = r[1]
              /\ wsprites' = [ wsprites EXCEPT ![w] = r[2] ]
              /\ wcall' = [ op |-> "update_sprites", w |-> w, dt |-> dt ]
    /\ wprev' = << heap, wsprites >>
    /\ wcalls' = wcalls + 1

\* one call window.draw_sprites()
WinDrawSprites ==
    /\ wcalls < MaxWinCalls
    /\ \E w \in WinNames :
          wcall' = [ op |-> "draw_sprites", w |-> w,
                     draws |-> Window_draw_sprites(heap, wsprites[w]) ]
    /\ wprev' = << heap, wsprites >>
    /\ wcalls' = wcalls + 1
    /\ UNCHANGED <<heap, wsprites>>

\* sprite.visible = not sprite.visible, by the client
WinToggleVisible ==
    /\ wcalls < MaxWinCalls
    /\ \E s \in DOMAIN heap :
          /\ heap' = [ heap EXCEPT ![s].obj.visible = ~@ ]
          /\ wcall' = [ op |-> "visible", s |-> s ]
    /\ wprev' = << heap, wsprites >>
    /\ wcalls' = wcalls + 1
    /\ UNCHANGED wsprites

----------------------------------------------------------------------------
(* Window: construction and put *)

\* AVAILABLE_FONTS and the cell size _get_font_dimensions measures for each
\* (the bundled fonts are fixed-cell BDF fonts named after their cell size)
AVAILABLE_FONTS == { "6x13", "9x18", "10x20" }
DEFAULT_FONT == "10x20"
font_dimensions(f) ==
    CASE f = "6x13" -> <<6, 13>>
      [] f = "9x18" -> <<9, 18>>
      [] OTHER -> <<10, 20>>

\* int(v) of a non-negative rational
IntOf(r) == r[1] \div r[2]

\* colours: a window background, glyph foregrounds and a cell background
NoColor == "None"
TRANSPARENT == "(0,0,0,0)"

\* Window.__init__ for a font that is available: the fields, scaled cell size
\* and a surface of width*cell_width x height*cell_height filled with bg
Window_init(name, x, y, width, height, z_index, font_name, scale, alpha, bg) ==
    LET cw == IntOf(RMul(RInt(font_dimensions(font_name)[1]), scale))
        ch == IntOf(RMul(RInt(font_dimensions(font_name)[2]), scale))
        b == IF bg # NoColor THEN bg ELSE TRANSPARENT
    IN  [ name |-> name, x |-> x, y |-> y, width |-> width, height |-> height,
          z_index |-> z_index, alpha |-> alpha, scale |-> scale,
          visible |-> TRUE, bg |-> b, sprites |-> <<>>,
          font_name |-> font_name, cell_width |-> cw, cell_height |-> ch,
          surface |-> [ p \in (0..(width * cw - 1)) \X (0..(height * ch - 1))
                          |-> b ] ]

\* font.render(char, fg), scaled to the cell: the inked pixels of the glyph
\* buffer, which has the size of one cell
Glyph(char, cw, ch) ==
    CASE char = "#" -> (0..(cw - 1)) \X (0..(ch - 1))
      [] char = "@" -> { q \in (0..(cw - 1)) \X (0..(ch - 1)) :
                           (q[1] + q[2]) % 2 = 0 }
      [] OTHER -> {}

\* surface.fill(colour, rect): the rect is clipped to the surface
Fill(surface, px, py, w, h, colour) ==
    [ p \in DOMAIN surface |->
        IF /\ px <= p[1] /\ p[1] < px + w
           /\ py <= p[2] /\ p[2] < py + h
        THEN colour ELSE surface[p] ]

\* surface.blit(glyph, (px, py)): inked pixels take the foreground colour
Blit(surface, px, py, ink, fg) ==
    [ p \in DOMAIN surface |->
        IF << p[1] - px, p[2] - py >> \in ink THEN fg ELSE surface[p] ]

\* Window.put as it would be if an out-of-range cell were clamped to the
\* nearest cell of the grid instead of being dropped
Window_put_clamped(w, x, y, char, fg, bg) ==
    LET cx == IF x < 0 THEN 0 ELSE IF x >= w.width THEN w.width - 1 ELSE x
        cy == IF y < 0 THEN 0 ELSE IF y >= w.height THEN w.height - 1 ELSE y
        px == cx * w.cell_width
        py == cy * w.cell_height
        s1 == IF bg # NoColor
              THEN Fill(w.surface, px, py, w.cell_width, w.cell_height, bg)
              ELSE w.surface
    IN  [ w EXCEPT !.surface =
            Blit(s1, px, py, Glyph(char, w.cell_width, w.cell_height), fg) ]

\* Window.put as it would be if the pixel origin were computed from the
\* unscaled cell size of the font
Window_put_unscaled(w, x, y, char, fg, bg) ==
    IF x < 0 \/ x >= w.width \/ y < 0 \/ y >= w.height
    THEN w
    ELSE
      LET px == x * font_dimensions(w.font_name)[1]
          py == y * font_dimensions(w.font_name)[2]
          s1 == IF bg # NoColor
                THEN Fill(w.surface, px, py, w.cell_width, w.cell_height, bg)
                ELSE w.surface
      IN  [ w EXCEPT !.surface =
              Blit(s1, px, py, Glyph(char, w.cell_width, w.cell_height), fg) ]

\* Window.put(x, y, char, fg, bg)
Window_put(w, x, y, char, fg, bg) ==
    IF x < 0 \/ x >= w.width \/ y < 0 \/ y >= w.height
    THEN w
    ELSE
      LET px == x * w.cell_width
          py == y * w.cell_height
          s1 == IF bg # NoColor
                THEN Fill(w.surface, px, py, w.cell_width, w.cell_height, bg)
                ELSE w.surface
      IN  [ w EXCEPT !.surface =
              Blit(s1, px, py, Glyph(char, w.cell_width, w.cell_height), fg) ]

\* the loop of Window.put_string from index i of text on
RECURSIVE put_string_loop(_, _, _, _, _, _, _)
put_string_loop(w, x, y, text, i, fg, bg) ==
    IF i > Len(text) THEN w
    ELSE put_string_loop(Window_put(w, x + (i - 1), y, text[i], fg, bg),
                         x, y, text, i + 1, fg, bg)

\* Window.put_string as it would be if a column past the right edge
\* continued on the next row
RECURSIVE put_string_wrap_loop(_, _, _, _, _, _, _)
put_string_wrap_loop(w, x, y, text, i, fg, bg) ==
    IF i > Len(text) THEN w
    ELSE LET c == x + (i - 1)
             over == c >= w.width
         IN  put_string_wrap_loop(
                Window_put(w, IF over THEN c - w.width ELSE c,
                           IF over THEN y + 1 ELSE y, text[i], fg, bg),
                x, y, text, i + 1, fg, bg)

Window_put_string_wrap(w, x, y, text, fg, bg) ==
    put_string_wrap_loop(w, x, y, text, 1, fg, bg)

\* Window.put_string(x, y, text, fg, bg): text is a sequence of characters
Window_put_string(w, x, y, text, fg, bg) ==
    put_string_loop(w, x, y, text, 1, fg, bg)

\* the windows drawn on, and the arguments of put
PutWindows ==
    { Window_init("a", 0, 0, 2, 2, 0, "6x13", Rat(1, 3), 255, NoColor),
      Window_init("b", 1, 0, 3, 1, 1, "9x18", Rat(1, 3), 128, "(20,20,30,255)") }
PutChars == { "@", "#" }
PutFgs == { "red" }
PutBgs == { NoColor, "blue" }

PutIdle ==
    /\ win = Window_init("a", 0, 0, 1, 1, 0, "6x13", Rat(1, 3), 255, NoColor)
    /\ pprev = win
    /\ pcall = [ op |-> "init" ]
    /\ pcalls = 0

PutInit ==
    /\ win \in PutWindows
    /\ pprev = win
    /\ pcall = [ op |-> "init" ]
    /\ pcalls = 0

\* one call win.put(x, y, char, fg, bg), also with cells outside the grid
PutCall ==
    /\ pcalls < MaxPuts
    /\ \E x \in -1..win.width, y \in -1..win.height,
          c \in PutChars, fg \in PutFgs, bg \in PutBgs :
          /\ win' = Window_put(win, x, y, c, fg, bg)
          /\ pcall' = [ op |-> "put", x |-> x, y |-> y,
                        char |-> c, fg |-> fg, bg |-> bg ]
    /\ pprev' = win
    /\ pcalls' = pcalls + 1

\* the texts given to put_string: every sequence of PutChars up to MaxText
Texts == UNION { [ 1..n -> PutChars ] : n \in 0..MaxText }

\* the windows put_string is called on: as created, or drawn on by an
\* earlier put into the first cell
TextWindows ==
    PutWindows \cup { Window_put(w, 0, 0, "#", "red", "blue") : w \in PutWindows }

TextInit ==
    /\ win \in TextWindows
    /\ pprev = win
    /\ pcall = [ op |-> "init" ]
    /\ pcalls = 0

\* one call win.put_string(x, y, text, fg, bg), from every column and row
\* of the grid and of its border
PutString ==
    /\ pcalls < MaxStrings
    /\ \E x \in -1..win.width, y \in -1..win.height,
          t \in Texts, fg \in PutFgs, bg \in PutBgs :
          /\ win' = Window_put_string(win, x, y, t, fg, bg)
          /\ pcall' = [ op |-> "put_string", x |-> x, y |-> y,
                        text |-> t, fg |-> fg, bg |-> bg ]
    /\ pprev' = win
    /\ pcalls' = pcalls + 1

----------------------------------------------------------------------------
(* The window registry and the frame loop *)

\* a Window's Surface in the registry part of the model, summarised: the
\* colour it is uniformly filled with, whether anything was drawn on it since
\* that fill, and the opacity last given to surface.set_alpha (255 at first)
Summary(surface) ==
    LET colours == { surface[p] : p \in DOMAIN surface }
    IN  [ colour |-> IF Cardinality(colours) = 1
                     THEN CHOOSE c \in colours : TRUE ELSE "mixed",
          drawn |-> Cardinality(colours) > 1,
          alpha |-> 255 ]

\* position of name in the registry, 0 if absent
IndexOf(reg, name) ==
    IF \E i \in 1..Len(reg) : reg[i].name = name
    THEN CHOOSE i \in 1..Len(reg) : reg[i].name = name
    ELSE 0

\* _windows[name] = window as it would be on a registry kept as a list of
\* windows and appended to without a look for the name
DictSet_append(reg, name, w) == Append(reg, w)

\* _windows[name] = window as it would be if an assignment to a key the dict
\* holds moved the key to the end of the iteration order
DictSet_move_to_end(reg, name, w) ==
    Append(SelectSeq(reg, LAMBDA v : v.name # name), w)

\* _windows[name] = window: a dict keeps the position of a key it already holds
DictSet(reg, name, w) ==
    IF IndexOf(reg, name) = 0 THEN Append(reg, w)
    ELSE [ reg EXCEPT ![IndexOf(reg, name)] = w ]

\* del _windows[name]
DictDel(reg, name) == SelectSeq(reg, LAMBDA w : w.name # name)

\* create_window(name, ...) with an available font: the registry it leaves;
\* id is the identity of the new Window object
create_window(reg, id, name, x, y, width, height, z_index, font_name, scale, alpha, bg) ==
    LET w == Window_init(name, x, y, width, height, z_index, font_name, scale,
                         alpha, bg)
    IN  DictSet(reg, name,
                [ id |-> id ] @@ [ w EXCEPT !.surface = Summary(w.surface) ])

\* remove_window(name)
remove_window(reg, name) ==
    IF IndexOf(reg, name) # 0 THEN DictDel(reg, name) ELSE reg

\* _root_cell_width, _root_cell_height: the cell size of DEFAULT_FONT
root_cell_width == font_dimensions(DEFAULT_FONT)[1]
root_cell_height == font_dimensions(DEFAULT_FONT)[2]

\* sorted(list, key=lambda w: w.z_index), as it would be if ties were broken
\* in favour of the later entry (not stable)
RECURSIVE sorted_unstable(_)
sorted_unstable(list) ==
    IF list = <<>> THEN <<>>
    ELSE LET rest == sorted_unstable(Tail(list))
             h == Head(list)
             before == SelectSeq(rest, LAMBDA w : w.z_index <= h.z_index)
             after == SelectSeq(rest, LAMBDA w : w.z_index > h.z_index)
         IN  before \o <<h>> \o after

\* sorted(list, key=lambda w: w.z_index): a stable insertion sort
RECURSIVE sorted(_)
sorted(list) ==
    IF list = <<>> THEN <<>>
    ELSE LET rest == sorted(Tail(list))
             h == Head(list)
             before == SelectSeq(rest, LAMBDA w : w.z_index < h.z_index)
             after == SelectSeq(rest, LAMBDA w : w.z_index >= h.z_index)
         IN  before \o <<h>> \o after

\* the identities of the Window objects a registry holds
Ids(reg) == { reg[i].id : i \in 1..Len(reg) }

\* the clear loop of run() as it would be if the fill blended the background
\* onto the surface: a fully transparent background leaves the surface as is
RECURSIVE ClearLoop_blend(_, _, _)
ClearLoop_blend(reg, order, ids) ==
    IF order = <<>> THEN << reg, ids >>
    ELSE LET w == Head(order)
             i == IndexOf(reg, w.name)
         IN  IF w.bg = TRANSPARENT
             THEN ClearLoop_blend(reg, Tail(order), ids \cup { w.id })
             ELSE ClearLoop_blend(
                    [ reg EXCEPT ![i].surface.colour = w.bg,
                                 ![i].surface.drawn = FALSE ],
                    Tail(order), ids \cup { w.id })

\* the clear loop of run() as it would be if, like the compositing loop, it
\* skipped the windows that are not visible
RECURSIVE ClearLoop_visible_only(_, _, _)
ClearLoop_visible_only(reg, order, ids) ==
    IF order = <<>> THEN << reg, ids >>
    ELSE LET w == Head(order)
             i == IndexOf(reg, w.name)
         IN  IF ~w.visible THEN ClearLoop_visible_only(reg, Tail(order), ids)
             ELSE ClearLoop_visible_only(
                    [ reg EXCEPT ![i].surface.colour = w.bg,
                                 ![i].surface.drawn = FALSE ],
                    Tail(order), ids \cup { w.id })

\* the clear loop of run(): the surface of every window of _windows.values()
\* is filled with the window's background; gives the registry it leaves and
\* the identities of the windows it filled
RECURSIVE ClearLoop(_, _, _)
ClearLoop(reg, order, ids) ==
    IF order = <<>> THEN << reg, ids >>
    ELSE LET w == Head(order)
             i == IndexOf(reg, w.name)
         IN  ClearLoop([ reg EXCEPT ![i].surface.colour = w.bg,
                                    ![i].surface.drawn = FALSE ],
                       Tail(order), ids \cup { w.id })

\* the compositing loop of run() as it would be if a window were placed by
\* its own cell size
RECURSIVE CompositeLoop_own_cell(_, _, _)
CompositeLoop_own_cell(reg, order, blits) ==
    IF order = <<>> THEN << reg, blits >>
    ELSE LET w == Head(order)
             i == IndexOf(reg, w.name)
             a == IF w.alpha < 255 THEN w.alpha ELSE w.surface.alpha
         IN  IF ~w.visible THEN CompositeLoop_own_cell(reg, Tail(order), blits)
             ELSE CompositeLoop_own_cell(
                    [ reg EXCEPT ![i].surface.alpha = a ],
                    Tail(order),
                    Append(blits,
                           [ id |-> w.id, name |-> w.name,
                             px |-> w.x * w.cell_width,
                             py |-> w.y * w.cell_height,
                             opacity |-> a, z_index |-> w.z_index ]))

\* the compositing loop of run(): every visible window, in sorted order, gets
\* its alpha applied if below 255 and is blitted at its root-cell position
\* in pixels; gives the registry (surface alphas) and the blits it leaves
RECURSIVE CompositeLoop(_, _, _)
CompositeLoop(reg, order, blits) ==
    IF order = <<>> THEN << reg, blits >>
    ELSE LET w == Head(order)
             i == IndexOf(reg, w.name)
             a == IF w.alpha < 255 THEN w.alpha ELSE w.surface.alpha
         IN  IF ~w.visible THEN CompositeLoop(reg, Tail(order), blits)
             ELSE CompositeLoop(
                    [ reg EXCEPT ![i].surface.alpha = a ],
                    Tail(order),
                    Append(blits,
                           [ id |-> w.id, name |-> w.name,
                             px |-> w.x * root_cell_width,
                             py |-> w.y * root_cell_height,
                             opacity |-> a, z_index |-> w.z_index ]))

\* the step of run() that follows step p within a tick, as it would be with
\* the render callback invoked before the windows are cleared
NextStep_render_first(p) ==
    CASE p = "events" -> "update"
      [] p = "update" -> "render"
      [] p = "render" -> "clear"
      [] p = "clear" -> "composite"
      [] p = "composite" -> "present"
      [] OTHER -> "test"

\* the step of run() that follows step p within a tick
NextStep(p) ==
    CASE p = "events" -> "update"
      [] p = "update" -> "clear"
      [] p = "clear" -> "render"
      [] p = "render" -> "composite"
      [] p = "composite" -> "present"
      [] OTHER -> "test"

\* where run() goes after step p, as it would be if _running were tested
\* after every step and the loop left as soon as it is False
AfterStep_eager_exit(p, run) == IF run THEN NextStep(p) ELSE "done"

\* where run() goes after step p: _running is read by the while test alone
AfterStep(p, run) == NextStep(p)

\* the arguments create_window is called with for each name
WinArgs(name) ==
    IF name = "a"
    THEN [ x |-> 1, y |-> 0, width |-> 1, height |-> 1, font_name |-> "6x13",
           scale |-> Rat(1, 3), alpha |-> 128, bg |-> NoColor ]
    ELSE [ x |-> 0, y |-> 1, width |-> 2, height |-> 1, font_name |-> "9x18",
           scale |-> Rat(1, 3), alpha |-> 255, bg |-> "(20,20,30,255)" ]
ClientNames == { "a", "b" }
ZIndexes == { 0, 1 }
Events == { "QUIT", "K_ESCAPE", "ALT_RETURN", "K_SPACE" }
Callbacks ==
    { [ update |-> TRUE, render |-> TRUE, on_key |-> TRUE ],
      [ update |-> FALSE, render |-> TRUE, on_key |-> FALSE ],
      [ update |-> FALSE, render |-> FALSE, on_key |-> FALSE ] }

\* init(title, width = 1, height = 1, bg): the root window is registered
RunIdle ==
    /\ windows = create_window(<<>>, 1, "root", 0, 0, 1, 1, 0, DEFAULT_FONT,
                               RInt(1), 255, NoColor)
    /\ running = FALSE
    /\ pc = "idle"
    /\ cb = [ update |-> FALSE, render |-> FALSE, on_key |-> FALSE ]
    /\ frame = <<>>
    /\ displayed = <<>>
    /\ tlog = <<>>
    /\ stopped = "no"
    /\ nextId = 2
    /\ evs = 0
    /\ ops = 0
    /\ cleared = {}
    /\ lastMut = "none"

RunInit == RunIdle

\* init(...), then create_window("a", ..., z_index = 1, alpha = 128) and
\* create_window("b", ..., z_index = 0, alpha = 255), before run()
FrameInit ==
    /\ windows =
          LET r0 == create_window(<<>>, 1, "root", 0, 0, 1, 1, 0, DEFAULT_FONT,
                                  RInt(1), 255, NoColor)
              a == WinArgs("a")
              b == WinArgs("b")
              r1 == create_window(r0, 2, "a", a.x, a.y, a.width, a.height, 1,
                                  a.font_name, a.scale, a.alpha, a.bg)
          IN  create_window(r1, 3, "b", b.x, b.y, b.width, b.height, 0,
                            b.font_name, b.scale, b.alpha, b.bg)
    /\ running = FALSE
    /\ pc = "idle"
    /\ cb = [ update |-> FALSE, render |-> FALSE, on_key |-> FALSE ]
    /\ frame = <<>>
    /\ displayed = <<>>
    /\ tlog = <<>>
    /\ stopped = "no"
    /\ nextId = 4
    /\ evs = 0
    /\ ops = 0
    /\ cleared = {}
    /\ lastMut = "none"

\* client code runs before run() is entered and inside the three callbacks
InClient == pc \in { "idle", "in_on_key", "in_update", "in_render" }

\* history of a stop signal: the step of run() during which _running was
\* first set False ("no": not yet; "earlier_tick": in a tick before this one)
Stop == IF stopped = "no" /\ pc # "idle" THEN pc ELSE stopped

\* quit(), called by the client
ClientQuit ==
    /\ InClient /\ ops < MaxClientOps
    /\ running' = FALSE
    /\ stopped' = Stop
    /\ ops' = ops + 1
    /\ UNCHANGED <<windows, pc, cb, frame, displayed, tlog, nextId, evs,
                   cleared, lastMut>>

\* create_window(name, ..., z_index, ...), called by the client
ClientCreateWindow ==
    /\ InClient /\ ops < MaxClientOps
    /\ \E n \in ClientNames, z \in ZIndexes :
          LET a == WinArgs(n)
          IN  windows' = create_window(windows, nextId, n, a.x, a.y, a.width,
                                       a.height, z, a.font_name, a.scale,
                                       a.alpha, a.bg)
    /\ nextId' = nextId + 1
    /\ ops' = ops + 1
    /\ lastMut' = IF Ids(windows') # Ids(windows) THEN pc ELSE lastMut
    /\ UNCHANGED <<running, pc, cb, frame, displayed, tlog, stopped, evs,
                   cleared>>

\* remove_window(name), called by the client, registered or not
ClientRemoveWindow ==
    /\ InClient /\ ops < MaxClientOps
    /\ \E n \in ClientNames \cup { "root" } :
          windows' = remove_window(windows, n)
    /\ ops' = ops + 1
    /\ lastMut' = IF Ids(windows') # Ids(windows) THEN pc ELSE lastMut
    /\ UNCHANGED <<running, pc, cb, frame, displayed, tlog, stopped, nextId,
                   evs, cleared>>

\* get_window(name).visible = not get_window(name).visible, by the client
ClientToggleVisible ==
    /\ InClient /\ ops < MaxClientOps
    /\ \E i \in 1..Len(windows) :
          windows' = [ windows EXCEPT ![i].visible = ~@ ]
    /\ ops' = ops + 1
    /\ UNCHANGED <<running, pc, cb, frame, displayed, tlog, stopped, nextId,
                   evs, cleared, lastMut>>

\* the values the client gives a window's alpha attribute
Alphas == { 128, 255 }

\* get_window(name).alpha = a, by the client
ClientSetAlpha ==
    /\ InClient /\ ops < MaxClientOps
    /\ \E i \in 1..Len(windows), a \in Alphas :
          /\ windows[i].alpha # a
          /\ windows' = [ windows EXCEPT ![i].alpha = a ]
    /\ ops' = ops + 1
    /\ UNCHANGED <<running, pc, cb, frame, displayed, tlog, stopped, nextId,
                   evs, cleared, lastMut>>

\* the colours the client gives set_bg
Bgs == { TRANSPARENT, "(20,20,30,255)" }

\* get_window(name).set_bg(color), by the client: self._bg = color
ClientSetBg ==
    /\ InClient /\ ops < MaxClientOps
    /\ \E i \in 1..Len(windows), c \in Bgs :
          /\ windows[i].bg # c
          /\ windows' = [ windows EXCEPT ![i].bg = c ]
    /\ ops' = ops + 1
    /\ UNCHANGED <<running, pc, cb, frame, displayed, tlog, stopped, nextId,
                   evs, cleared, lastMut>>

\* get_window(name).put(x, y, char, fg) on a cell of the window, by the
\* client: the surface is no longer of one colour
ClientPut ==
    /\ InClient /\ ops < MaxClientOps
    /\ \E i \in 1..Len(windows) :
          /\ windows' = [ windows EXCEPT ![i].surface.colour = "mixed",
                                         ![i].surface.drawn = TRUE ]
          /\ painted' = painted \cup { windows[i].id }
    /\ ops' = ops + 1
    /\ UNCHANGED <<running, pc, cb, frame, displayed, tlog, stopped, nextId,
                   evs, cleared, lastMut>>

\* nothing drawn by the client yet
ClearIdle == painted = {}

\* run() as it would be entered if it left _running as it found it
RunEnter_flag_kept ==
    /\ pc = "idle"
    /\ cb' \in Callbacks
    /\ pc' = "test"
    /\ stopped' = "no"
    /\ UNCHANGED <<windows, running, frame, displayed, tlog, nextId, evs, ops,
                   cleared, lastMut>>

\* run(update, render, on_key) is entered: _running = True
RunEnter ==
    /\ pc = "idle"
    /\ cb' \in Callbacks
    /\ running' = TRUE
    /\ pc' = "test"
    /\ stopped' = "no"
    /\ UNCHANGED <<windows, frame, displayed, tlog, nextId, evs, ops,
                   cleared, lastMut>>

\* while _running: a new tick starts, or the loop is left
RunTest ==
    /\ pc = "test"
    /\ IF running
       THEN /\ pc' = "events"
            /\ tlog' = <<>>
            /\ evs' = 0
            /\ stopped' = IF stopped = "no" THEN "no" ELSE "earlier_tick"
            /\ cleared' = {}
            /\ lastMut' = "none"
       ELSE /\ pc' = "done"
            /\ UNCHANGED <<tlog, evs, stopped, cleared, lastMut>>
    /\ UNCHANGED <<windows, running, cb, frame, displayed, nextId, ops>>

\* one event of pygame.event.get() is handled (display mode is not modelled:
\* Alt+Enter changes nothing here; a key goes to on_key if one was given)
RunEvent ==
    /\ pc = "events" /\ evs < MaxEvents
    /\ evs' = evs + 1
    /\ \E e \in Events :
          CASE e \in { "QUIT", "K_ESCAPE" } ->
                 /\ running' = FALSE
                 /\ stopped' = Stop
                 /\ UNCHANGED pc
            [] e = "K_SPACE" /\ cb.on_key ->
                 /\ pc' = "in_on_key"
                 /\ UNCHANGED <<running, stopped>>
            [] OTHER ->
                 /\ UNCHANGED <<running, stopped, pc>>
    /\ UNCHANGED <<windows, cb, frame, displayed, tlog, nextId, ops,
                   cleared, lastMut>>

\* on_key(event.key) returns: the event loop goes on
RunOnKeyReturn ==
    /\ pc = "in_on_key"
    /\ pc' = "events"
    /\ UNCHANGED <<windows, running, cb, frame, displayed, tlog, stopped,
                   nextId, evs, ops, cleared, lastMut>>

\* the event queue is exhausted
RunEventsDone ==
    /\ pc = "events"
    /\ pc' = AfterStep("events", running)
    /\ UNCHANGED <<windows, running, cb, frame, displayed, tlog, stopped,
                   nextId, evs, ops, cleared, lastMut>>

\* if update: update(dt) is called
RunUpdate ==
    /\ pc = "update"
    /\ IF cb.update
       THEN pc' = "in_update" /\ tlog' = Append(tlog, "update")
       ELSE pc' = AfterStep("update", running) /\ UNCHANGED tlog
    /\ UNCHANGED <<windows, running, cb, frame, displayed, stopped, nextId,
                   evs, ops, cleared, lastMut>>

\* update(dt) returns
RunUpdateReturn ==
    /\ pc = "in_update"
    /\ pc' = AfterStep("update", running)
    /\ UNCHANGED <<windows, running, cb, frame, displayed, tlog, stopped,
                   nextId, evs, ops, cleared, lastMut>>

\* for window in _windows.values(): window.surface.fill(window._bg)
RunClear ==
    /\ pc = "clear"
    /\ LET r == ClearLoop(windows, windows, {})
       IN  windows' = r[1] /\ cleared' = r[2]
    /\ lastMut' = IF Ids(windows') # Ids(windows) THEN pc ELSE lastMut
    /\ tlog' = Append(tlog, "clear")
    /\ pc' = AfterStep("clear", running)
    /\ UNCHANGED <<running, cb, frame, displayed, stopped, nextId, evs, ops>>

\* if render: render() is called
RunRender ==
    /\ pc = "render"
    /\ IF cb.render
       THEN pc' = "in_render" /\ tlog' = Append(tlog, "render")
       ELSE pc' = AfterStep("render", running) /\ UNCHANGED tlog
    /\ UNCHANGED <<windows, running, cb, frame, displayed, stopped, nextId,
                   evs, ops, cleared, lastMut>>

\* render() returns
RunRenderReturn ==
    /\ pc = "in_render"
    /\ pc' = AfterStep("render", running)
    /\ UNCHANGED <<windows, running, cb, frame, displayed, tlog, stopped,
                   nextId, evs, ops, cleared, lastMut>>

\* _render_surface.fill((0, 0, 0)), then the sorted windows are blitted
RunComposite ==
    /\ pc = "composite"
    /\ LET r == CompositeLoop(windows, sorted(windows), <<>>)
       IN  windows' = r[1] /\ frame' = r[2]
    /\ lastMut' = IF Ids(windows') # Ids(windows) THEN pc ELSE lastMut
    /\ tlog' = Append(tlog, "composite")
    /\ pc' = AfterStep("composite", running)
    /\ UNCHANGED <<running, cb, displayed, stopped, nextId, evs, ops, cleared>>

\* display.blit(_render_surface, ...); pygame.display.flip()
RunPresent ==
    /\ pc = "present"
    /\ displayed' = frame
    /\ tlog' = Append(tlog, "present")
    /\ pc' = AfterStep("present", running)
    /\ UNCHANGED <<windows, running, cb, frame, stopped, nextId, evs, ops,
                   cleared, lastMut>>

----------------------------------------------------------------------------
(* The registry calls, with their outcome *)

\* _load_font(font_name) as it would be if an unknown name fell back to
\* DEFAULT_FONT instead of raising
load_font_fallback(font_name) ==
    IF font_name \in AVAILABLE_FONTS
    THEN [ raised |-> "none", font |-> font_name ]
    ELSE [ raised |-> "none", font |-> DEFAULT_FONT ]

\* _load_font(font_name): the font of that name (the cache _fonts holds only
\* names of AVAILABLE_FONTS), or ValueError with the list of the valid names
load_font(font_name) ==
    IF font_name \in AVAILABLE_FONTS
    THEN [ raised |-> "none", font |-> font_name ]
    ELSE [ raised |-> "ValueError", listed |-> AVAILABLE_FONTS ]

\* get_window(name) as it would be on a registry that creates a default entry
\* for a missing key (dict.setdefault, a defaultdict)
get_window_setdefault(reg, name) ==
    LET made == create_window(reg, 0, name, 0, 0, 1, 1, 0, DEFAULT_FONT,
                              RInt(1), 255, NoColor)
        r == IF IndexOf(reg, name) = 0 THEN made ELSE reg
    IN  [ reg |-> r,
          ret |-> [ raised |-> "none", id |-> r[IndexOf(r, name)].id ] ]

\* get_window(name): _windows[name]; gives the registry it leaves and the
\* Window returned (by identity) or the KeyError raised
get_window(reg, name) ==
    IF IndexOf(reg, name) = 0
    THEN [ reg |-> reg, ret |-> [ raised |-> "KeyError" ] ]
    ELSE [ reg |-> reg,
           ret |-> [ raised |-> "none", id |-> reg[IndexOf(reg, name)].id ] ]

\* the names and fonts of the registry calls; "8x8" is not an available font
RegNames == { "root", "a", "b" }
RegFonts == { "6x13", "10x20", "8x8" }

RegIdle ==
    /\ rprev = <<>>
    /\ rcall = [ op |-> "init" ]

\* one call create_window(name, ..., z_index, font_name, ...) before run():
\* Window.__init__ loads the font first, and the registry is written only if
\* the constructor returned
RegCreateWindow ==
    /\ pc = "idle" /\ ops < MaxRegCalls
    /\ \E n \in RegNames, z \in ZIndexes, f \in RegFonts :
          LET a == WinArgs(n)
              lf == load_font(f)
          IN  IF lf.raised = "none"
              THEN /\ windows' = create_window(windows, nextId, n, a.x, a.y,
                                               a.width, a.height, z, lf.font,
                                               a.scale, a.alpha, a.bg)
                   /\ rcall' = [ op |-> "create_window", name |-> n,
                                 font_name |-> f,
                                 ret |-> [ raised |-> "none", id |-> nextId ] ]
              ELSE /\ windows' = windows
                   /\ rcall' = [ op |-> "create_window", name |-> n,
                                 font_name |-> f, ret |-> lf ]
    /\ rprev' = windows
    /\ nextId' = nextId + 1
    /\ ops' = ops + 1
    /\ UNCHANGED <<running, pc, cb, frame, displayed, tlog, stopped, evs,
                   cleared, lastMut>>

\* one call get_window(name) before run()
RegGetWindow ==
    /\ pc = "idle" /\ ops < MaxRegCalls
    /\ \E n \in RegNames :
          LET r == get_window(windows, n)
          IN  /\ windows' = r.reg
              /\ rcall' = [ op |-> "get_window", name |-> n, ret |-> r.ret ]
    /\ rprev' = windows
    /\ ops' = ops + 1
    /\ UNCHANGED <<running, pc, cb, frame, displayed, tlog, stopped, nextId,
                   evs, cleared, lastMut>>

\* one call remove_window(name) before run()
RegRemoveWindow ==
    /\ pc = "idle" /\ ops < MaxRegCalls
    /\ \E n \in RegNames :
          /\ windows' = remove_window(windows, n)
          /\ rcall' = [ op |-> "remove_window", name |-> n,
                        ret |-> [ raised |-> "none" ] ]
    /\ rprev' = windows
    /\ ops' = ops + 1
    /\ UNCHANGED <<running, pc, cb, frame, displayed, tlog, stopped, nextId,
                   evs, cleared, lastMut>>

----------------------------------------------------------------------------
(* The pattern builders create_sprite and create_effect *)

\* Python's None and a value that is not None, for an Optional argument or
\* field: the empty list and the list of that one value
None == <<>>
Some(v) == << v >>

\* the characters str.strip() and str.lstrip() remove, among PatternChars
Whitespace == { " " }

\* pattern.split('\n'): the lines of a string, at least one
RECURSIVE SplitLines(_)
SplitLines(str) ==
    IF \A i \in 1..Len(str) : str[i] # "\n" THEN << str >>
    ELSE LET i == CHOOSE k \in 1..Len(str) :
                    str[k] = "\n" /\ \A j \in 1..(k - 1) : str[j] # "\n"
         IN  << SubSeq(str, 1, i - 1) >>
                \o SplitLines(SubSeq(str, i + 1, Len(str)))

\* not line.strip()
IsBlank(line) == \A i \in 1..Len(line) : line[i] \in Whitespace

\* while lines and not lines[0].strip(): lines.pop(0), as it would be if
\* the leading lines were kept
PopLeading_keep(lines) == lines

\* while lines and not lines[0].strip(): lines.pop(0)
RECURSIVE PopLeading(_)
PopLeading(lines) ==
    IF lines # <<>> /\ IsBlank(Head(lines)) THEN PopLeading(Tail(lines))
    ELSE lines

\* while lines and not lines[-1].strip(): lines.pop()
RECURSIVE PopTrailing(_)
PopTrailing(lines) ==
    IF lines # <<>> /\ IsBlank(lines[Len(lines)])
    THEN PopTrailing(SubSeq(lines, 1, Len(lines) - 1))
    ELSE lines

\* len(line) - len(line.lstrip())
Indent(line) ==
    CHOOSE n \in 0..Len(line) :
        /\ \A i \in 1..n : line[i] \in Whitespace
        /\ n < Len(line) => line[n + 1] \notin Whitespace

\* min_indent: the least indent of the lines that are not blank, 0 if none
MinIndent(lines) ==
    LET ns == { Indent(lines[i]) : i \in { k \in 1..Len(lines) : ~IsBlank(lines[k]) } }
    IN  IF ns = {} THEN 0 ELSE CHOOSE n \in ns : \A m \in ns : n <= m

\* line[int(min_indent):] if len(line) >= min_indent else ''
Dedent(line, m) ==
    IF Len(line) >= m THEN SubSeq(line, m + 1, Len(line)) ELSE <<>>

\* the padding loops as they would be if they never ran
PadRow_none(row, width, filler) == row

\* while len(row) < max_width: row.append(filler)
PadRow(row, width, filler) ==
    row \o [ i \in 1..(width - Len(row)) |-> filler ]

\* max_width: the length of the longest row
MaxWidth(rows) ==
    IF rows = <<>> THEN 0
    ELSE CHOOSE n \in { Len(rows[i]) : i \in 1..Len(rows) } :
            \A i \in 1..Len(rows) : Len(rows[i]) <= n

\* bool(char_colors): None and the empty dict are both false
Truthy(char_colors) == char_colors # None /\ DOMAIN char_colors[1] # {}

\* [char_colors.get(c) for c in row]
ColorRow(row, char_colors) ==
    [ i \in 1..Len(row) |->
        IF row[i] \in DOMAIN char_colors[1] THEN char_colors[1][row[i]]
        ELSE NoColor ]

\* SpriteFrame.__init__(chars, fg_colors)
SpriteFrame_init(chars, fg_colors) ==
    [ chars |-> chars, fg_colors |-> fg_colors, bg_colors |-> None,
      height |-> Len(chars),
      width |-> IF chars # <<>> THEN Len(chars[1]) ELSE 0 ]

\* create_sprite(pattern, fg, bg, char_colors): the Sprite it returns
create_sprite(str, char_colors) ==
    LET lines == PopTrailing(PopLeading(SplitLines(str)))
        m == MinIndent(lines)
        rows == [ i \in 1..Len(lines) |-> Dedent(lines[i], m) ]
        w == MaxWidth(rows)
        chars == [ i \in 1..Len(rows) |-> PadRow(rows[i], w, " ") ]
        fg_colors ==
            IF Truthy(char_colors)
            THEN Some([ i \in 1..Len(rows) |->
                          PadRow(ColorRow(rows[i], char_colors), w, NoColor) ])
            ELSE None
    IN  IF lines = <<>>
        THEN [ frames |-> << SpriteFrame_init(<< <<>> >>, None) >> ] @@ Sprite_init
        ELSE [ frames |-> << SpriteFrame_init(chars, fg_colors) >> ] @@ Sprite_init

\* create_effect as it would be if its copy of the parsing code left the rows
\* of the chars grid unpadded
create_effect_pattern_unpadded(str, x, y, vx, vy, drag, fade_time, char_colors) ==
    LET lines == PopTrailing(PopLeading(SplitLines(str)))
        m == MinIndent(lines)
        rows == [ i \in 1..Len(lines) |-> Dedent(lines[i], m) ]
        w == MaxWidth(rows)
        fg_colors ==
            IF Truthy(char_colors)
            THEN Some([ i \in 1..Len(rows) |->
                          PadRow(ColorRow(rows[i], char_colors), w, NoColor) ])
            ELSE None
    IN  IF lines = <<>>
        THEN [ frames |-> << SpriteFrame_init(<< <<>> >>, None) >> ]
                @@ [ EffectSprite_init EXCEPT !.x = x, !.y = y ]
        ELSE [ frames |-> << SpriteFrame_init(rows, fg_colors) >> ]
                @@ create_effect(x, y, vx, vy, drag, fade_time)

\* create_effect(pattern, x, y, vx, vy, fg, bg, drag, fade_time, char_colors):
\* the EffectSprite it returns (the function parses the pattern with a copy
\* of the code of create_sprite)
create_effect_pattern(str, x, y, vx, vy, drag, fade_time, char_colors) ==
    LET lines == PopTrailing(PopLeading(SplitLines(str)))
        m == MinIndent(lines)
        rows == [ i \in 1..Len(lines) |-> Dedent(lines[i], m) ]
        w == MaxWidth(rows)
        chars == [ i \in 1..Len(rows) |-> PadRow(rows[i], w, " ") ]
        fg_colors ==
            IF Truthy(char_colors)
            THEN Some([ i \in 1..Len(rows) |->
                          PadRow(ColorRow(rows[i], char_colors), w, NoColor) ])
            ELSE None
    IN  IF lines = <<>>
        THEN [ frames |-> << SpriteFrame_init(<< <<>> >>, None) >> ]
                @@ [ EffectSprite_init EXCEPT !.x = x, !.y = y ]
        ELSE [ frames |-> << SpriteFrame_init(chars, fg_colors) >> ]
                @@ create_effect(x, y, vx, vy, drag, fade_time)

\* the characters of the pattern strings, the strings, the char_colors
\* tables (none, an empty one, one that maps '@', one that maps '@' and the
\* space) and the other arguments
\* create_effect is called with (its defaults, or the spark of its docstring)
PatternChars == { " ", "\n", "@", "#" }
Patterns == UNION { [ 1..n -> PatternChars ] : n \in 0..MaxPattern }
ColorTables ==
    { None, Some(<<>>),
      Some([ c \in { "@" } |-> "yellow" ]),
      Some([ c \in { "@", " " } |-> IF c = "@" THEN "yellow" ELSE "red" ]) }
EffectArgs ==
    { [ x |-> RInt(1), y |-> RInt(2), vx |-> RInt(0), vy |-> RInt(0),
        drag |-> RInt(1), fade_time |-> RInt(0) ],
      [ x |-> RInt(10), y |-> RInt(15), vx |-> RInt(5), vy |-> RInt(-8),
        drag |-> Rat(3, 10), fade_time |-> Rat(1, 2) ] }

PatIdle ==
    /\ pattern = <<>>
    /\ pcolors = None
    /\ pout = [ op |-> "none" ]

PatInit ==
    /\ pattern \in Patterns
    /\ pcolors \in ColorTables
    /\ pout = [ op |-> "none" ]

\* one call create_sprite(pattern, char_colors = pcolors)
CreateSprite ==
    /\ pout.op = "none"
    /\ pout' = [ op |-> "create_sprite", ret |-> create_sprite(pattern, pcolors) ]
    /\ UNCHANGED <<pattern, pcolors>>

\* one call create_effect(pattern, x, y, vx, vy, drag = .., fade_time = ..,
\* char_colors = pcolors)
CreateEffect ==
    /\ pout.op = "none"
    /\ \E a \in EffectArgs :
          pout' = [ op |-> "create_effect", args |-> a,
                    ret |-> create_effect_pattern(pattern, a.x, a.y, a.vx, a.vy,
                                                  a.drag, a.fade_time, pcolors) ]
    /\ UNCHANGED <<pattern, pcolors>>

----------------------------------------------------------------------------
(* Sprite.draw and EffectSprite.draw *)

\* the colours of a sprite and the fields its constructor sets besides the
\* position: Sprite(frames, fg, bg, origin) / EffectSprite(frames, fg, bg, origin)
Drawable(origin) ==
    [ origin |-> origin, fg |-> "white", bg |-> NoColor, current_frame |-> 0 ]

\* the colour of the character at (row, col): the override of the frame's
\* grid if the frame has a grid with that cell and the cell is not None,
\* else the sprite's default colour
CellColor(grid, row, col, default) ==
    IF grid # None /\ grid[1] # <<>> /\ row <= Len(grid[1])
    THEN IF col <= Len(grid[1][row]) /\ grid[1][row][col] # NoColor
         THEN grid[1][row][col] ELSE default
    ELSE default

\* the calls made in the rows of the loop, one after the other
RECURSIVE Concat(_)
Concat(seqs) == IF seqs = <<>> THEN <<>> ELSE Head(seqs) \o Concat(Tail(seqs))

\* the columns of a row that hold a character other than the space
InkCols(row) ==
    SelectSeq([ c \in 1..Len(row) |-> c ], LAMBDA c : row[c] # " ")

\* Sprite.draw as it would be if the origin offset were added to the base
\* position
Sprite_draw_origin_added(s, cw, ch) ==
    IF s.frames = <<>> THEN <<>>
    ELSE
      LET f == s.frames[s.current_frame + 1]
          base_px == s.visual_x + s.origin[1] * cw * FPS
          base_py == s.visual_y + s.origin[2] * ch * FPS
          Call(r, c) ==
              [ px |-> base_px + (c - 1) * cw * FPS,
                py |-> base_py + (r - 1) * ch * FPS,
                char |-> f.chars[r][c],
                fg |-> CellColor(f.fg_colors, r, c, s.fg),
                bg |-> CellColor(f.bg_colors, r, c, s.bg),
                alpha |-> 255 ]
          RowCalls(r) ==
              [ k \in 1..Len(InkCols(f.chars[r])) |-> Call(r, InkCols(f.chars[r])[k]) ]
      IN  Concat([ r \in 1..Len(f.chars) |-> RowCalls(r) ])

\* Sprite.draw(window): the window._put_at_pixel calls it makes, in order;
\* positions in units of 1/FPS px, rows and columns counted from 1
Sprite_draw(s, cw, ch) ==
    IF s.frames = <<>> THEN <<>>
    ELSE
      LET f == s.frames[s.current_frame + 1]
          base_px == s.visual_x - s.origin[1] * cw * FPS
          base_py == s.visual_y - s.origin[2] * ch * FPS
          Call(r, c) ==
              [ px |-> base_px + (c - 1) * cw * FPS,
                py |-> base_py + (r - 1) * ch * FPS,
                char |-> f.chars[r][c],
                fg |-> CellColor(f.fg_colors, r, c, s.fg),
                bg |-> CellColor(f.bg_colors, r, c, s.bg),
                alpha |-> 255 ]
          RowCalls(r) ==
              [ k \in 1..Len(InkCols(f.chars[r])) |-> Call(r, InkCols(f.chars[r])[k]) ]
      IN  Concat([ r \in 1..Len(f.chars) |-> RowCalls(r) ])

\* the alpha EffectSprite.draw computes: _initial_alpha, or with a fade
\* int(_initial_alpha * (1.0 - min(1.0, _fade_elapsed / fade_time)))
EffectSprite_alpha(e) ==
    IF RLess(RInt(0), e.fade_time)
    THEN LET q == RMul(e.fade_elapsed, << e.fade_time[2], e.fade_time[1] >>)
             fade_progress == IF RLess(RInt(1), q) THEN RInt(1) ELSE q
         IN  IntOf(RMul(RInt(e.initial_alpha),
                        RAdd(RInt(1), RMul(RInt(-1), fade_progress))))
    ELSE e.initial_alpha

\* EffectSprite.draw(window): the window._put_at_pixel calls it makes, in
\* order; positions in px, as rationals
EffectSprite_draw(e, cw, ch) ==
    IF e.frames = <<>> \/ ~e.visible THEN <<>>
    ELSE
      LET alpha == EffectSprite_alpha(e)
          f == e.frames[e.current_frame + 1]
          base_px == RAdd(RMul(e.x, RInt(cw)), RInt(-(e.origin[1] * cw)))
          base_py == RAdd(RMul(e.y, RInt(ch)), RInt(-(e.origin[2] * ch)))
          Call(r, c) ==
              [ px |-> RAdd(base_px, RInt((c - 1) * cw)),
                py |-> RAdd(base_py, RInt((r - 1) * ch)),
                char |-> f.chars[r][c],
                fg |-> CellColor(f.fg_colors, r, c, e.fg),
                bg |-> CellColor(f.bg_colors, r, c, e.bg),
                alpha |-> alpha ]
          RowCalls(r) ==
              [ k \in 1..Len(InkCols(f.chars[r])) |-> Call(r, InkCols(f.chars[r])[k]) ]
      IN  Concat([ r \in 1..Len(f.chars) |-> RowCalls(r) ])

\* sprite.draw(window) on either class of sprite
draw(o, cw, ch) ==
    IF o.kind = "EffectSprite" THEN EffectSprite_draw(o.obj, cw, ch)
    ELSE Sprite_draw(o.obj, cw, ch)

\* the sprites drawn: built from these patterns ("@#", "@ / #" on two rows,
\* and the empty pattern) with and without a colour table, anchored at
\* their top-left cell or one cell in, or constructed with no frame at all
DrawPatterns == { << "@", "#" >>, << "@", " ", "\n", " ", "#" >>, <<>> }
DrawColors == { None, Some([ c \in { "@" } |-> "yellow" ]) }
Origins == { << 0, 0 >>, << 1, 1 >> }
DrawSprites ==
    { [ kind |-> "Sprite",
        obj |-> Drawable(o) @@
                Sprite_move_to([ create_sprite(p, c) EXCEPT !.move_speed = 1 ], 2, 1) ] :
        p \in DrawPatterns, c \in DrawColors, o \in Origins }
    \cup { [ kind |-> "Sprite",
             obj |-> Drawable(<< 0, 0 >>) @@ [ frames |-> <<>> ] @@ Sprite_init ] }
DrawEffects ==
    { [ kind |-> "EffectSprite",
        obj |-> Drawable(a[3]) @@
                create_effect_pattern(a[1], a[4][1], a[4][2], RInt(10), RInt(0),
                                      RInt(1), a[5], a[2]) ] :
        a \in DrawPatterns \X DrawColors \X Origins \X EffectPositions \X FadeTimes }
    \cup { [ kind |-> "EffectSprite",
             obj |-> Drawable(<< 0, 0 >>) @@ [ frames |-> <<>> ] @@ EffectSprite_init ] }
DrawDts == { RInt(0) } \cup WinDts
\* EffectSprite.update takes any float: a step back in time as well
DrawEffectDts == { Rat(-1, 2 * TicksPerSec) } \cup DrawDts

DrawIdle ==
    /\ dobj = [ kind |-> "Sprite",
                obj |-> Drawable(<< 0, 0 >>) @@ [ frames |-> <<>> ] @@ Sprite_init ]
    /\ dcell = << 10, 20 >>
    /\ dprev = dobj
    /\ dout = [ op |-> "init" ]
    /\ dn = 0

DrawInit ==
    /\ dobj \in DrawSprites \cup DrawEffects
    /\ dcell \in CellSizes
    /\ dprev = dobj
    /\ dout = [ op |-> "init" ]
    /\ dn = 0

\* one call sprite.update(dt, cell_width, cell_height)
DrawUpdate ==
    /\ dn < MaxDraws
    /\ \E dt \in IF dobj.kind = "EffectSprite" THEN DrawEffectDts ELSE DrawDts :
          /\ dobj' = update(dobj, dt, dcell[1], dcell[2])
          /\ dout' = [ op |-> "update", dt |-> dt ]
    /\ dprev' = dobj
    /\ dn' = dn + 1
    /\ UNCHANGED dcell

\* one call sprite.draw(window): it reads the sprite and assigns nothing
DrawCall ==
    /\ dn < MaxDraws
    /\ dout' = [ op |-> "draw", calls |-> draw(dobj, dcell[1], dcell[2]) ]
    /\ dprev' = dobj
    /\ dn' = dn + 1
    /\ UNCHANGED <<dobj, dcell>>

----------------------------------------------------------------------------
(* Specifications *)

SpecEffectInit ==
    EffectInit /\ SpriteIdle /\ WinIdle /\ PutIdle /\ RunIdle /\ RegIdle /\ ClearIdle /\ PatIdle /\ DrawIdle

SpecEffectNext == EffectUpdate /\ UNCHANGED <<sprVars, winVars, putVars, runVars, regVars, clrVars, patVars, drwVars>>

SpecEffect == SpecEffectInit /\ [][SpecEffectNext]_vars

SpecSpriteInit ==
    SpriteInit /\ EffectIdle /\ WinIdle /\ PutIdle /\ RunIdle /\ RegIdle /\ ClearIdle /\ PatIdle /\ DrawIdle

SpecSpriteNext ==
    \/ SpriteMoveTo /\ UNCHANGED <<effVars, winVars, putVars, runVars, regVars, clrVars, patVars, drwVars>>
    \/ SpriteSetSpeed /\ UNCHANGED <<effVars, winVars, putVars, runVars, regVars, clrVars, patVars, drwVars>>
    \/ SpriteUpdate /\ UNCHANGED <<effVars, winVars, putVars, runVars, regVars, clrVars, patVars, drwVars>>

SpecSprite == SpecSpriteInit /\ [][SpecSpriteNext]_vars

SpecWinInit ==
    WinInit /\ EffectIdle /\ SpriteIdle /\ PutIdle /\ RunIdle /\ RegIdle /\ ClearIdle /\ PatIdle /\ DrawIdle

SpecWinNext ==
    \/ WinAddSprite /\ UNCHANGED <<effVars, sprVars, putVars, runVars, regVars, clrVars, patVars, drwVars>>
    \/ WinRemoveSprite /\ UNCHANGED <<effVars, sprVars, putVars, runVars, regVars, clrVars, patVars, drwVars>>
    \/ WinUpdateSprites /\ UNCHANGED <<effVars, sprVars, putVars, runVars, regVars, clrVars, patVars, drwVars>>
    \/ WinDrawSprites /\ UNCHANGED <<effVars, sprVars, putVars, runVars, regVars, clrVars, patVars, drwVars>>
    \/ WinToggleVisible /\ UNCHANGED <<effVars, sprVars, putVars, runVars, regVars, clrVars, patVars, drwVars>>

SpecWin == SpecWinInit /\ [][SpecWinNext]_vars

SpecPutInit ==
    PutInit /\ EffectIdle /\ SpriteIdle /\ WinIdle /\ RunIdle /\ RegIdle /\ ClearIdle /\ PatIdle /\ DrawIdle

SpecPutNext == PutCall /\ UNCHANGED <<effVars, sprVars, winVars, runVars, regVars, clrVars, patVars, drwVars>>

SpecPut == SpecPutInit /\ [][SpecPutNext]_vars

SpecRunInit ==
    RunInit /\ EffectIdle /\ SpriteIdle /\ WinIdle /\ PutIdle /\ RegIdle /\ ClearIdle /\ PatIdle /\ DrawIdle

notRun == <<effVars, sprVars, winVars, putVars, regVars, clrVars, patVars, drwVars>>

SpecRunNext ==
    \/ ClientQuit /\ UNCHANGED notRun
    \/ ClientCreateWindow /\ UNCHANGED notRun
    \/ ClientRemoveWindow /\ UNCHANGED notRun
    \/ ClientToggleVisible /\ UNCHANGED notRun
    \/ RunEnter /\ UNCHANGED notRun
    \/ RunTest /\ UNCHANGED notRun
    \/ RunEvent /\ UNCHANGED notRun
    \/ RunOnKeyReturn /\ UNCHANGED notRun
    \/ RunEventsDone /\ UNCHANGED notRun
    \/ RunUpdate /\ UNCHANGED notRun
    \/ RunUpdateReturn /\ UNCHANGED notRun
    \/ RunClear /\ UNCHANGED notRun
    \/ RunRender /\ UNCHANGED notRun
    \/ RunRenderReturn /\ UNCHANGED notRun
    \/ RunComposite /\ UNCHANGED notRun
    \/ RunPresent /\ UNCHANGED notRun

SpecRun == SpecRunInit /\ [][SpecRunNext]_vars

SpecFrameInit ==
    FrameInit /\ EffectIdle /\ SpriteIdle /\ WinIdle /\ PutIdle /\ RegIdle /\ ClearIdle /\ PatIdle /\ DrawIdle

SpecFrameNext ==
    \/ ClientSetAlpha /\ UNCHANGED notRun
    \/ ClientQuit /\ UNCHANGED notRun
    \/ RunEnter /\ UNCHANGED notRun
    \/ RunTest /\ UNCHANGED notRun
    \/ RunEvent /\ UNCHANGED notRun
    \/ RunOnKeyReturn /\ UNCHANGED notRun
    \/ RunEventsDone /\ UNCHANGED notRun
    \/ RunUpdate /\ UNCHANGED notRun
    \/ RunUpdateReturn /\ UNCHANGED notRun
    \/ RunClear /\ UNCHANGED notRun
    \/ RunRender /\ UNCHANGED notRun
    \/ RunRenderReturn /\ UNCHANGED notRun
    \/ RunComposite /\ UNCHANGED notRun
    \/ RunPresent /\ UNCHANGED notRun

SpecFrame == SpecFrameInit /\ [][SpecFrameNext]_vars

SpecRegInit ==
    RunInit /\ RegIdle /\ EffectIdle /\ SpriteIdle /\ WinIdle /\ PutIdle /\ ClearIdle /\ PatIdle /\ DrawIdle

notReg == <<effVars, sprVars, winVars, putVars, clrVars, patVars, drwVars>>

SpecRegNext ==
    \/ RegCreateWindow /\ UNCHANGED notReg
    \/ RegGetWindow /\ UNCHANGED notReg
    \/ RegRemoveWindow /\ UNCHANGED notReg

SpecReg == SpecRegInit /\ [][SpecRegNext]_vars

SpecClearInit ==
    FrameInit /\ ClearIdle /\ EffectIdle /\ SpriteIdle /\ WinIdle /\ PutIdle /\ RegIdle /\ PatIdle /\ DrawIdle

notClear == <<effVars, sprVars, winVars, putVars, regVars, patVars, drwVars>>

SpecClearNext ==
    \/ ClientSetBg /\ UNCHANGED <<notClear, clrVars>>
    \/ ClientPut /\ UNCHANGED notClear
    \/ ClientToggleVisible /\ UNCHANGED <<notClear, clrVars>>
    \/ RunEnter /\ UNCHANGED <<notClear, clrVars>>
    \/ RunTest /\ UNCHANGED <<notClear, clrVars>>
    \/ RunEvent /\ UNCHANGED <<notClear, clrVars>>
    \/ RunOnKeyReturn /\ UNCHANGED <<notClear, clrVars>>
    \/ RunEventsDone /\ UNCHANGED <<notClear, clrVars>>
    \/ RunUpdate /\ UNCHANGED <<notClear, clrVars>>
    \/ RunUpdateReturn /\ UNCHANGED <<notClear, clrVars>>
    \/ RunClear /\ UNCHANGED <<notClear, clrVars>>
    \/ RunRender /\ UNCHANGED <<notClear, clrVars>>
    \/ RunRenderReturn /\ UNCHANGED <<notClear, clrVars>>
    \/ RunComposite /\ UNCHANGED <<notClear, clrVars>>
    \/ RunPresent /\ UNCHANGED <<notClear, clrVars>>

SpecClear == SpecClearInit /\ [][SpecClearNext]_vars

SpecTextInit ==
    TextInit /\ EffectIdle /\ SpriteIdle /\ WinIdle /\ RunIdle /\ RegIdle /\ ClearIdle /\ PatIdle /\ DrawIdle

SpecTextNext == PutString /\ UNCHANGED <<effVars, sprVars, winVars, runVars, regVars, clrVars, patVars, drwVars>>

SpecText == SpecTextInit /\ [][SpecTextNext]_vars

SpecPatternInit ==
    PatInit /\ EffectIdle /\ SpriteIdle /\ WinIdle /\ PutIdle /\ RunIdle /\ RegIdle /\ ClearIdle /\ DrawIdle

notPat == <<effVars, sprVars, winVars, putVars, runVars, regVars, clrVars, drwVars>>

SpecPatternNext ==
    \/ CreateSprite /\ UNCHANGED notPat
    \/ CreateEffect /\ UNCHANGED notPat

SpecPattern == SpecPatternInit /\ [][SpecPatternNext]_vars

SpecDrawInit ==
    DrawInit /\ EffectIdle /\ SpriteIdle /\ WinIdle /\ PutIdle /\ RunIdle /\ RegIdle /\ ClearIdle /\ PatIdle

notDraw == <<effVars, sprVars, winVars, putVars, runVars, regVars, clrVars, patVars>>

SpecDrawNext ==
    \/ DrawUpdate /\ UNCHANGED notDraw
    \/ DrawCall /\ UNCHANGED notDraw

SpecDraw == SpecDrawInit /\ [][SpecDrawNext]_vars

----------------------------------------------------------------------------
(* Claims about the EffectSprite, checked under SpecEffect *)

Fading == RLess(RInt(0), effect.fade_time)

\* C1: for an EffectSprite with fade_time > 0, once the dt of its update
\* calls have summed to at least fade_time (after any sequence of steps),
\* alive and visible are both False, and they stay False under every
\* further update call, whatever its dt.
C1_FadeTerminal ==
    (Fading /\ reached) => (~effect.alive /\ ~effect.visible)

\* a dead sprite that was updated again after the sum fell back below fade_time
C1_Witness ==
    /\ Fading /\ reached /\ ecalls >= 3
    /\ RLess(total, effect.fade_time)
    /\ ~effect.alive

\* C9: while the EffectSprite is alive and 0 < drag < 1, its velocity after
\* update calls whose dt sum to T is the initial velocity times drag ** T,
\* however T was split into steps.
C9_DragLaw ==
    (effect.alive /\ RLess(effect.drag, RInt(1)) /\ RLess(RInt(0), effect.drag))
        => /\ effect.vx = RMul(created.vx, RExp(effect.drag, total))
           /\ effect.vy = RMul(created.vy, RExp(effect.drag, total))

\* one second reached in three or more steps by a sprite with drag in (0, 1)
C9_Witness ==
    /\ effect.alive
    /\ RLess(effect.drag, RInt(1)) /\ RLess(RInt(0), effect.drag)
    /\ ecalls >= 3 /\ total = RInt(1)
    /\ effect.vx # created.vx

\* C10: with fade_time fixed at creation, after any sequence of update calls
\* alive is True exactly when fade_time = 0 or the elapsed fade time is below
\* fade_time, and visible equals alive; while alive and fading the elapsed
\* fade time is the sum of the dt so far, and with fade_time = 0 the elapsed
\* fade time never changes.
C10_AliveIffFadeOpen ==
    /\ effect.fade_time = created.fade_time
    /\ effect.alive <=> (effect.fade_time = RInt(0)
                           \/ RLess(effect.fade_elapsed, effect.fade_time))
    /\ effect.visible = effect.alive
    /\ (Fading /\ effect.alive) => effect.fade_elapsed = total
    /\ ~Fading => effect.fade_elapsed = created.fade_elapsed
    /\ created.alive /\ created.visible

\* the fade completed exactly at fade_time, after more than one step
C10_Witness ==
    /\ Fading /\ ecalls >= 2
    /\ ~effect.alive
    /\ effect.fade_elapsed = effect.fade_time
    /\ total = effect.fade_elapsed

\* C11: update(dt, ...) on an EffectSprite whose alive flag is False is a
\* no-op: x, y, vx, vy, the elapsed fade time, alive and visible (and every
\* other field) are as they were before the call, for every dt.
C11_DeadUpdateNoOp ==
    (ecalls >= 1 /\ ~eprev.alive) => effect = eprev

\* a dead sprite that still has a velocity was updated with a dt other than 0
C11_Witness ==
    /\ ecalls >= 2 /\ ~eprev.alive
    /\ edt # RInt(0)
    /\ eprev.vx # RInt(0)

\* C21: an EffectSprite with drag = 1.0 and fade_time = 0 moves in a straight
\* line at constant velocity: after update calls whose dt sum to T it is at
\* (x0 + vx*T, y0 + vy*T) with its velocity unchanged and alive still True;
\* from (0, 0) with velocity (10, 0), one update(dt = 1.0) gives (10, 0).
C21_Ballistic ==
    (effect.drag = RInt(1) /\ effect.fade_time = RInt(0))
        => /\ effect.x = RAdd(created.x, RMul(created.vx, total))
           /\ effect.y = RAdd(created.y, RMul(created.vy, total))
           /\ effect.vx = created.vx /\ effect.vy = created.vy
           /\ effect.alive
           /\ (/\ ecalls = 1 /\ edt = RInt(1)
               /\ created.x = RInt(0) /\ created.y = RInt(0)
               /\ created.vx = RInt(10) /\ created.vy = RInt(0))
                  => (effect.x = RInt(10) /\ effect.y = RInt(0))

\* a sprite without drag or fade, moving on both axes, after three or more
\* updates of different dt
C21_Witness ==
    /\ effect.drag = RInt(1) /\ effect.fade_time = RInt(0)
    /\ ecalls >= 3 /\ edt # total /\ total # RInt(0)
    /\ created.vx # RInt(0) /\ created.vy # RInt(0)
    /\ effect.x # created.x

----------------------------------------------------------------------------
(* Claims about the Sprite, checked under SpecSprite *)

\* squared distance from the visual position of s to its target, in units
Dist2(s) ==
    LET t == TargetOf(s, cell[1], cell[2])
    IN  (t[1] - s.visual_x) * (t[1] - s.visual_x)
          + (t[2] - s.visual_y) * (t[2] - s.visual_y)

\* on each axis, b lies between a and the target t (never past t)
Between(a, b, t) == (t - b) * (t - a) >= 0 /\ Abs(t - b) <= Abs(t - a)

C3_MoveToInstant ==
    /\ scall.op = "move_to" =>
          /\ sprite.x = scall.x /\ sprite.y = scall.y
    /\ scall.op = "update" =>
          /\ sprite.x = sprev.x /\ sprite.y = sprev.y

\* an update in mid-glide toward a cell with a negative coordinate
C3_Witness ==
    /\ scall.op = "update" /\ smoves >= 1
    /\ sprite.x = -1 /\ sprite.move_speed > 0
    /\ sprite.visual_x < 0 /\ Dist2(sprite) > 0

\* sprite s after k further calls update(dt = n/FPS, cell_width, cell_height)
RECURSIVE After(_, _, _)
After(s, n, k) ==
    IF k = 0 THEN s
    ELSE After(Sprite_update(s, n, cell[1], cell[2]), n, k - 1)

\* the number of steps of speed_px * dt that cover the distance of s to its
\* target, counting a last, partial step, and one step more, which snaps a
\* sprite that rounding has left within 0.5 px of the target
StepsToTarget(s, n) ==
    Sqrt(Dist2(s)) \div (s.move_speed * cell[1] * n) + 2

C19_Teleport ==
    (scall.op = "update" /\ sprev.move_speed <= 0) =>
        sprite = [ sprev EXCEPT !.visual_x = sprev.x * cell[1] * FPS,
                                !.visual_y = sprev.y * cell[2] * FPS ]

\* a sprite stopped in mid-glide by move_speed = 0, away from its target on
\* both axes, is updated with dt = 0
C19_Witness ==
    /\ scall.op = "update" /\ scall.dt = 0
    /\ sprev.move_speed = 0
    /\ sprev.visual_x # 0 /\ sprev.visual_y # 0
    /\ sprev.visual_x # sprite.visual_x /\ sprev.visual_y # sprite.visual_y
    /\ sprev.visual_x % (cell[1] * FPS) # 0

\* C31: under any interleaving of move_to and update(dt >= 0) calls, the
\* visual position is changed by update alone (move_to, and a change of
\* move_speed, leave visual_x and visual_y as they were), and each update
\* leaves it on the straight segment from its previous value to the current
\* target (within the rounding of one unit): it never passes the target on
\* either axis.
C31_VisualFollowsTarget ==
    /\ scall.op \in { "move_to", "set_speed" } =>
          /\ sprite.visual_x = sprev.visual_x
          /\ sprite.visual_y = sprev.visual_y
    /\ scall.op = "update" =>
          LET t == TargetOf(sprev, cell[1], cell[2])
              dx == t[1] - sprev.visual_x
              dy == t[2] - sprev.visual_y
              mx == sprite.visual_x - sprev.visual_x
              my == sprite.visual_y - sprev.visual_y
          IN  /\ TargetOf(sprite, cell[1], cell[2]) = t
              /\ Between(sprev.visual_x, sprite.visual_x, t[1])
              /\ Between(sprev.visual_y, sprite.visual_y, t[2])
              /\ 2 * Abs(dx * my - dy * mx) <= Abs(dx) + Abs(dy)

\* a move_to in mid-glide turned the sprite back: the update that follows
\* takes it toward the new target on both axes, short of it
C31_Witness ==
    /\ scall.op = "update" /\ scall.dt > 0 /\ smoves = MaxMoves
    /\ sprev.move_speed > 0
    /\ sprev.visual_x > TargetOf(sprev, cell[1], cell[2])[1]
    /\ sprev.visual_y > TargetOf(sprev, cell[1], cell[2])[2]
    /\ sprite.visual_x < sprev.visual_x /\ sprite.visual_y < sprev.visual_y
    /\ Dist2(sprite) > 0

\* the last call was a move_to of a resting sprite along one axis
AxisMove ==
    /\ scall.op = "move_to" /\ Dist2(sprev) = 0
    /\ (sprite.x = sprev.x) # (sprite.y = sprev.y)

\* the length of that move, in cells
CellsMoved == Abs(sprite.x - sprev.x) + Abs(sprite.y - sprev.y)

\* C20 as stated: move_speed is a speed in cells per second on both axes:
\* with move_speed = s > 0, a purely horizontal and a purely vertical move of
\* n cells alike bring the visual position to the target once the dt of the
\* update calls sum to n/s seconds, and not before, for every cell size
\* (checked where n/s is a whole number of steps of 1/60 s).
C20_CellsPerSecond ==
    (/\ AxisMove /\ sprite.move_speed > 0
     /\ (CellsMoved * FPS) % sprite.move_speed = 0) =>
        LET k == (CellsMoved * FPS) \div sprite.move_speed
        IN  /\ Dist2(After(sprite, 1, k)) = 0
            /\ Dist2(After(sprite, 1, k - 1)) > 0

----------------------------------------------------------------------------
(* Claims about the Window sprite list, checked under SpecWin *)

\* the entries of list that are regular Sprites, in order
RegularOf(list) == SelectSeq(list, LAMBDA s : heap[s].kind = "Sprite")

\* effect sprite o, alive and fading, completes its fade within one update(dt)
DiesWithin(o, dt) ==
    /\ o.kind = "EffectSprite" /\ o.obj.alive
    /\ RLess(RInt(0), o.obj.fade_time)
    /\ RLeq(o.obj.fade_time, RAdd(o.obj.fade_elapsed, dt))

\* C7: update_sprites(dt) updates the window's sprites first and then removes
\* exactly the entries whose alive flag is False: on return the list holds no
\* dead EffectSprite (one whose fade completed in this very pass is gone),
\* every regular Sprite is still there, the survivors keep their relative
\* order, and no other window's list is touched.
C7_UpdateSpritesPurges ==
    wcall.op = "update_sprites" =>
        LET old == wprev[2][wcall.w]
            new == wsprites[wcall.w]
        IN  /\ new = SelectSeq(old, LAMBDA s : ~IsDead(heap[s]))
            /\ \A i \in 1..Len(new) : ~IsDead(heap[new[i]])
            /\ \A i \in 1..Len(old) :
                  DiesWithin(wprev[1][old[i]], wcall.dt) =>
                      \A j \in 1..Len(new) : new[j] # old[i]
            /\ RegularOf(new) = RegularOf(old)
            /\ \A w \in WinNames \ {wcall.w} : wsprites[w] = wprev[2][w]

\* a pass over a Sprite and two EffectSprites in which one fade completes
C7_Witness ==
    /\ wcall.op = "update_sprites"
    /\ Len(wprev[2][wcall.w]) = 3
    /\ Len(wsprites[wcall.w]) = 2
    /\ wprev[1][2].obj.alive /\ ~heap[2].obj.alive
    /\ RegularOf(wsprites[wcall.w]) # <<>>

\* sprite object s is an entry of list
InList(list, s) == \E i \in 1..Len(list) : list[i] = s

\* C13 as stated: after any sequence of add_sprite, remove_sprite and
\* update_sprites calls on any windows, each Sprite / EffectSprite object is
\* a member of the sprite list of at most one Window.
C13_SingleOwner ==
    \A s \in DOMAIN heap :
        Cardinality({ w \in WinNames : InList(wsprites[w], s) }) <= 1

\* the positions of list whose sprite is visible in heap h
VisibleAt(h, list) == { i \in 1..Len(list) : h[list[i]].obj.visible }

\* C26: draw_sprites() calls draw, in sprite-list order, on every sprite
\* whose visible flag is True and on no sprite whose flag is False (so a
\* sprite later in the list is drawn after, and over, an earlier one), and
\* changes neither the sprite list nor any sprite.
C26_DrawVisibleInOrder ==
    wcall.op = "draw_sprites" =>
        LET list == wsprites[wcall.w]
            vis == VisibleAt(heap, list)
        IN  /\ heap = wprev[1] /\ wsprites = wprev[2]
            /\ Len(wcall.draws) = Cardinality(vis)
            /\ \A i \in vis :
                  wcall.draws[Cardinality({ j \in vis : j <= i })] = list[i]
            /\ \A k \in 1..Len(wcall.draws) : heap[wcall.draws[k]].obj.visible

\* a list of two different sprites of which the first is hidden: draw is
\* called on the second alone
C26_Witness ==
    /\ wcall.op = "draw_sprites"
    /\ Len(wsprites[wcall.w]) = 2
    /\ wsprites[wcall.w][1] # wsprites[wcall.w][2]
    /\ ~heap[wsprites[wcall.w][1]].obj.visible
    /\ wcall.draws = << wsprites[wcall.w][2] >>

\* the number of entries of list that are sprite object s
Count(list, s) == Cardinality({ i \in 1..Len(list) : list[i] = s })

\* C27: add_sprite(s) appends s at the end of the window's sprite list and
\* returns s; remove_sprite(s) for an s that is not in the list leaves the
\* list unchanged and raises no error, and for an s in the list removes it
\* (one entry, the first) while keeping the order of the other sprites.
C27_AddAppendsRemoveKeepsOrder ==
    LET old == wprev[2][wcall.w]
        new == wsprites[wcall.w]
    IN  /\ wcall.op = "add_sprite" =>
              /\ new = Append(old, wcall.s)
              /\ wcall.ret = wcall.s
        /\ wcall.op = "remove_sprite" =>
              /\ ~wcall.raised
              /\ ~InList(old, wcall.s) => new = old
              /\ InList(old, wcall.s) =>
                    /\ Len(new) = Len(old) - 1
                    /\ Count(new, wcall.s) = Count(old, wcall.s) - 1
                    /\ SelectSeq(new, LAMBDA e : e # wcall.s)
                          = SelectSeq(old, LAMBDA e : e # wcall.s)
                    /\ \E i \in 1..Len(old) :
                          /\ old[i] = wcall.s
                          /\ \A j \in 1..(i - 1) : old[j] # wcall.s
                          /\ new = SubSeq(old, 1, i - 1)
                                      \o SubSeq(old, i + 1, Len(old))
        /\ wcall.op \in { "add_sprite", "remove_sprite" } =>
              /\ heap = wprev[1]
              /\ \A w \in WinNames \ { wcall.w } : wsprites[w] = wprev[2][w]

\* the first of three different sprites was removed from a list
C27_Witness ==
    /\ wcall.op = "remove_sprite"
    /\ Len(wprev[2][wcall.w]) = 3 /\ wprev[2][wcall.w][1] = wcall.s
    /\ wprev[2][wcall.w][2] # wprev[2][wcall.w][3]
    /\ ~InList(wsprites[wcall.w], wcall.s)
    /\ Len(wsprites[wcall.w]) = 2

\* C32 as stated: each update_sprites(dt) pass calls update exactly once on
\* each sprite object the window lists, so one pass advances every such
\* sprite by exactly dt (and leaves every other sprite as it was), after any
\* sequence of add_sprite / remove_sprite calls.
C32_UpdatedOncePerPass ==
    wcall.op = "update_sprites" =>
        \A s \in DOMAIN heap :
            heap[s] = IF InList(wprev[2][wcall.w], s)
                      THEN update(wprev[1][s], wcall.dt,
                                  WinCell(wcall.w)[1], WinCell(wcall.w)[2])
                      ELSE wprev[1][s]

----------------------------------------------------------------------------
(* Claims about Window.put, checked under SpecPut *)

OutOfGrid(w, x, y) == x < 0 \/ x >= w.width \/ y < 0 \/ y >= w.height

\* C8: for every (x, y) with x < 0, x >= width, y < 0 or y >= height,
\* put(x, y, char, fg, bg) returns normally and leaves the surface and every
\* other field of the window as they were.
C8_PutClips ==
    (pcall.op = "put" /\ OutOfGrid(pprev, pcall.x, pcall.y)) => win = pprev

\* a clipped put on a surface that an earlier put has drawn on
C8_Witness ==
    /\ pcall.op = "put" /\ pcalls = 2
    /\ pcall.x = win.width /\ pcall.y = 0 /\ pcall.bg # NoColor
    /\ \E p \in DOMAIN win.surface : win.surface[p] # win.bg

\* C25: an in-bounds put(x, y, char, fg, bg) draws at pixel origin
\* (x*cell_w, y*cell_h) and changes only pixels of cell (x, y): inside the
\* cell the glyph's pixels take fg and the others bg (if one is given), and
\* every pixel of every other cell, and every other field, is as it was.
C25_PutStaysInCell ==
    (pcall.op = "put" /\ ~OutOfGrid(pprev, pcall.x, pcall.y)) =>
        LET cw == pprev.cell_width
            ch == pprev.cell_height
            ox == pcall.x * cw
            oy == pcall.y * ch
            ink == Glyph(pcall.char, cw, ch)
            InCell(p) == /\ ox <= p[1] /\ p[1] < ox + cw
                         /\ oy <= p[2] /\ p[2] < oy + ch
        IN  /\ [ win EXCEPT !.surface = pprev.surface ] = pprev
            /\ DOMAIN win.surface = DOMAIN pprev.surface
            /\ \A p \in DOMAIN win.surface :
                  win.surface[p] =
                     IF ~InCell(p) THEN pprev.surface[p]
                     ELSE IF << p[1] - ox, p[2] - oy >> \in ink THEN pcall.fg
                     ELSE IF pcall.bg # NoColor THEN pcall.bg
                     ELSE pprev.surface[p]

\* a put into the last cell of a grid whose first cell an earlier put had
\* drawn: the last cell now differs from the background, the first is kept
C25_Witness ==
    /\ pcall.op = "put" /\ pcalls = 2
    /\ pcall.x = win.width - 1 /\ pcall.y = win.height - 1 /\ pcall.x > 0
    /\ win.surface[<< pcall.x * win.cell_width, pcall.y * win.cell_height >>]
          = pcall.fg
    /\ pprev.surface[<< 0, 0 >>] # pprev.bg
    /\ win.surface[<< 0, 0 >>] = pprev.surface[<< 0, 0 >>]
    /\ win.scale # RInt(1)

----------------------------------------------------------------------------
(* Claims about Window.put_string, checked under SpecText *)

\* C24: put_string(x, y, text, fg, bg) has exactly the effect of the puts
\* put(x+i, y, text[i], fg, bg) for i = 0 .. len(text)-1 in that order: the
\* cell (x+i, y) shows text[i] for every i whose column is inside
\* [0, width), the characters of the other columns are dropped one by one,
\* and no pixel of another row (or any other cell, or field) changes.
C24_PutStringIsPuts ==
    pcall.op = "put_string" =>
        LET t == pcall.text
            x == pcall.x
            y == pcall.y
            cw == pprev.cell_width
            ch == pprev.cell_height
            P(w, i) == Window_put(w, x + (i - 1), y, t[i], pcall.fg, pcall.bg)
            Shown(p) ==
                LET c == p[1] \div cw
                    i == c - x + 1
                IN  IF p[2] \div ch = y /\ 1 <= i /\ i <= Len(t)
                    THEN IF << p[1] - c * cw, p[2] - y * ch >>
                               \in Glyph(t[i], cw, ch)
                         THEN pcall.fg
                         ELSE IF pcall.bg # NoColor THEN pcall.bg
                         ELSE pprev.surface[p]
                    ELSE pprev.surface[p]
        IN  /\ win = [ pprev EXCEPT !.surface =
                         [ p \in DOMAIN pprev.surface |-> Shown(p) ] ]
            /\ Len(t) = 0 => win = pprev
            /\ Len(t) = 1 => win = P(pprev, 1)
            /\ Len(t) = 2 => win = P(P(pprev, 1), 2)
            /\ Len(t) = 3 => win = P(P(P(pprev, 1), 2), 3)

\* a text that starts in the last column of a row that is not the last, on
\* a window drawn on before: its first character is shown, the second is
\* dropped and the first cell of the next row is as it was
C24_Witness ==
    /\ pcall.op = "put_string"
    /\ pcall.x = win.width - 1 /\ pcall.y = 0 /\ win.height > 1
    /\ Len(pcall.text) = MaxText /\ pcall.text[1] = "#"
    /\ win.surface[<< pcall.x * win.cell_width, 0 >>] = pcall.fg
    /\ pprev.surface[<< pcall.x * win.cell_width, 0 >>] # pcall.fg
    /\ win.surface[<< 0, win.cell_height >>] = win.bg
    /\ pprev.surface[<< 0, 0 >>] # pprev.bg

----------------------------------------------------------------------------
(* Claims about the frame loop, checked under SpecRun *)

\* the registered window a blit came from, as the registry holds it now
Source(b) == windows[IndexOf(windows, b.name)]

\* the steps of one tick, for the callbacks run() was given
TickSteps ==
    SelectSeq(<< "update", "clear", "render", "composite", "present" >>,
              LAMBDA st : /\ st = "update" => cb.update
                          /\ st = "render" => cb.render)

IsPrefix(a, b) == Len(a) <= Len(b) /\ a = SubSeq(b, 1, Len(a))

\* C4: in each tick exactly the windows with visible = True are blitted onto
\* the framebuffer, each once, in ascending z_index order, and windows of
\* equal z_index in registration order, that is the order in which the
\* registry holds their names.
C4_ZOrderCompositing ==
    pc = "present" =>
        /\ \A i \in 1..Len(frame) :
              /\ IndexOf(windows, frame[i].name) # 0
              /\ Source(frame[i]).id = frame[i].id
              /\ Source(frame[i]).visible
        /\ \A k \in 1..Len(windows) :
              windows[k].visible =>
                  \E i \in 1..Len(frame) : frame[i].id = windows[k].id
        /\ \A i, j \in 1..Len(frame) :
              i < j =>
                  /\ frame[i].id # frame[j].id
                  /\ Source(frame[i]).z_index <= Source(frame[j]).z_index
                  /\ Source(frame[i]).z_index = Source(frame[j]).z_index
                        => IndexOf(windows, frame[i].name)
                             < IndexOf(windows, frame[j].name)

\* three windows composited: "a" (z = 1) was registered before "b" (z = 0),
\* which ties with the root window
C4_Witness ==
    /\ pc = "present"
    /\ Len(frame) = 3
    /\ frame[1].name = "root" /\ frame[2].name = "b" /\ frame[3].name = "a"
    /\ IndexOf(windows, "a") < IndexOf(windows, "b")

\* C5: within every tick the steps come in the fixed order update callback,
\* clear, render callback, compositing, present (a callback that was not
\* given is skipped); the render callback never runs before the clear nor
\* after compositing has started, and a tick that ends has taken every step.
C5_TickOrder ==
    /\ IsPrefix(tlog, TickSteps)
    /\ pc = "in_update" => tlog = << "update" >>
    /\ pc = "in_render" =>
          /\ tlog[Len(tlog)] = "render"
          /\ tlog[Len(tlog) - 1] = "clear"
    /\ pc = "present" => tlog[Len(tlog)] = "composite"
    /\ (pc \in { "test", "done" } /\ tlog # <<>>) => tlog = TickSteps

\* a whole tick with all three callbacks given, and the loop still running
C5_Witness ==
    /\ pc = "test" /\ running
    /\ tlog = << "update", "clear", "render", "composite", "present" >>
    /\ Len(displayed) >= 2

\* C6: when a stop is signalled during a tick (quit() from a callback, an
\* Escape key press or a window-close event) the rest of that tick, through
\* compositing and present, still runs, and then the loop is left without
\* another tick being started; _running is read at the tick boundary alone.
C6_CooperativeStop ==
    /\ stopped # "earlier_tick"
    /\ pc = "done" =>
          /\ stopped # "no"
          /\ tlog = TickSteps
          /\ displayed = frame
    /\ (stopped # "no" /\ pc # "idle") => ~running
    /\ (~running /\ pc # "idle") => stopped # "no"

\* quit() was called in the update callback; two windows were composited and
\* presented before the loop was left
C6_Witness ==
    /\ pc = "done"
    /\ stopped = "in_update"
    /\ Len(frame) >= 2
    /\ displayed = frame

\* C14 as stated, checked under SpecFrame: in every tick each visible window
\* is blitted onto the framebuffer with an opacity equal to the current value
\* of its alpha attribute, whatever values alpha had in earlier ticks.
C14_BlitOpacityIsAlpha ==
    pc = "present" =>
        \A i \in 1..Len(frame) : frame[i].opacity = Source(frame[i]).alpha

\* C12 as stated: the registry is mutated only between ticks: no
\* create_window or remove_window call takes effect while the update or the
\* render callback of a tick is executing, and the set of windows cleared at
\* the start of a tick is the set that is composited at its end.
C12_MutatedBetweenTicksOnly ==
    /\ lastMut \notin { "in_update", "in_render" }
    /\ pc \in { "composite", "present" } => Ids(windows) = cleared

\* C12, amended: a create_window or remove_window call takes effect at once,
\* wherever the client makes it: before run(), or inside the on_key, update
\* or render callback of a tick; the steps of run() itself never add or
\* remove an entry. The windows cleared in a tick are all the windows
\* registered at that moment, visible or not, and they are the windows the
\* compositing pass of that tick goes through unless the render callback of
\* that tick created or removed a window.
C12_MutatedByClientCallsOnly ==
    /\ lastMut \in { "none", "idle", "in_on_key", "in_update", "in_render" }
    /\ pc = "render" => Ids(windows) = cleared
    /\ (pc \in { "composite", "present" } /\ lastMut # "in_render")
          => Ids(windows) = cleared

\* a tick whose update callback created a window: it was cleared and went
\* through compositing together with a window that is not visible
C12_Witness ==
    /\ pc = "present"
    /\ lastMut = "in_update"
    /\ Cardinality(cleared) >= 2
    /\ \E i \in 1..Len(windows) : ~windows[i].visible
    /\ Ids(windows) = cleared

\* C23: a window is blitted onto the framebuffer at pixel position
\* (window.x * root_cell_w, window.y * root_cell_h), the cell size of the root
\* window established at init, whatever the window's own font, scale and
\* cell size.
C23_BlitAtRootCells ==
    pc = "present" =>
        \A k \in 1..Len(frame) :
            LET w == Source(frame[k])
                root == windows[IndexOf(windows, "root")]
            IN  /\ frame[k].px = w.x * root.cell_width
                /\ frame[k].py = w.y * root.cell_height

\* windows of two fonts, with cells smaller than the root's, were blitted
\* away from the origin on either axis
C23_Witness ==
    /\ pc = "present"
    /\ \E k, l \in 1..Len(frame) :
          /\ Source(frame[k]).x > 0 /\ Source(frame[l]).y > 0
          /\ Source(frame[k]).cell_width # root_cell_width
          /\ Source(frame[l]).cell_height # root_cell_height
          /\ Source(frame[k]).font_name # Source(frame[l]).font_name
          /\ frame[k].px > 0 /\ frame[l].py > 0

----------------------------------------------------------------------------
(* Claims about the clear step, checked under SpecClear *)

\* C22: in every tick, after the clear step and before the render callback
\* runs, the surface of every registered window (visible or not) is uniformly
\* its current background colour, the creation bg or the last set_bg value:
\* nothing drawn earlier remains on any window.
C22_ClearedBeforeRender ==
    pc = "render" =>
        \A i \in 1..Len(windows) :
            /\ windows[i].surface.colour = windows[i].bg
            /\ ~windows[i].surface.drawn

\* about to render: a hidden window that was drawn on and whose background
\* was changed by set_bg since its creation
C22_Witness ==
    /\ pc = "render" /\ cb.render
    /\ \E i \in 1..Len(windows) :
          /\ windows[i].id \in painted
          /\ ~windows[i].visible
          /\ windows[i].name = "b" /\ windows[i].bg = TRANSPARENT

----------------------------------------------------------------------------
(* Claims about the pattern builders, checked under SpecPattern *)

\* the lines of the pattern between its first and last non-blank line
TrimmedInput ==
    LET ls == SplitLines(pattern)
        nb == { i \in 1..Len(ls) : ~IsBlank(ls[i]) }
    IN  IF nb = {} THEN <<>>
        ELSE SubSeq(ls, CHOOSE i \in nb : \A j \in nb : i <= j,
                        CHOOSE i \in nb : \A j \in nb : i >= j)

\* the indentations of the non-blank lines of the pattern
Indents ==
    { Indent(TrimmedInput[i]) :
        i \in { k \in 1..Len(TrimmedInput) : ~IsBlank(TrimmedInput[k]) } }

\* the indentation common to the lines of the pattern
CommonIndent == IF Indents = {} THEN 0 ELSE CHOOSE n \in Indents : \A m \in Indents : n <= m

\* the trimmed input with the common indentation removed from every line
DedentedInput ==
    [ i \in 1..Len(TrimmedInput) |->
        SubSeq(TrimmedInput[i], CommonIndent + 1, Len(TrimmedInput[i])) ]

\* a line without its trailing spaces
RStrip(line) ==
    SubSeq(line, 1, CHOOSE n \in 0..Len(line) :
                       /\ \A i \in (n + 1)..Len(line) : line[i] = " "
                       /\ n > 0 => line[n] # " ")

\* lines joined with newlines
RECURSIVE JoinLines(_)
JoinLines(ls) ==
    IF ls = <<>> THEN <<>>
    ELSE IF Len(ls) = 1 THEN ls[1]
    ELSE ls[1] \o << "\n" >> \o JoinLines(Tail(ls))

\* the chars grid of the sprite built, each row joined and stripped of its
\* trailing spaces, the rows joined with newlines
Rejoined ==
    LET chars == pout.ret.frames[1].chars
    IN  JoinLines([ i \in 1..Len(chars) |-> RStrip(chars[i]) ])

\* every non-blank line has the same indentation; the last line is not blank
Uniform == Cardinality(Indents) <= 1
NoTrailingBlank == ~IsBlank(SplitLines(pattern)[Len(SplitLines(pattern))])

\* C28 as stated: for a pattern with uniform indentation and no trailing
\* blank lines, the chars grid built by create_sprite, rows joined, stripped
\* of trailing spaces and joined with newlines, equals the input with its
\* leading/trailing blank lines trimmed and its common indentation removed.
C28_RoundTrip ==
    (pout.op = "create_sprite" /\ Uniform /\ NoTrailingBlank)
        => Rejoined = JoinLines(DedentedInput)

\* C28: for such a pattern the re-joined chars grid equals the trimmed,
\* dedented input with the trailing spaces of each of its lines stripped too.
C28_RoundTripStripped ==
    (pout.op = "create_sprite" /\ Uniform /\ NoTrailingBlank)
        => Rejoined = JoinLines([ i \in 1..Len(DedentedInput) |->
                                    RStrip(DedentedInput[i]) ])

\* an indented pattern after a blank line, with a line that ends in a space
C28_Witness ==
    /\ pout.op = "create_sprite" /\ Uniform /\ NoTrailingBlank
    /\ CommonIndent > 0
    /\ IsBlank(SplitLines(pattern)[1])
    /\ \E i \in 1..Len(DedentedInput) : RStrip(DedentedInput[i]) # DedentedInput[i]
    /\ Rejoined # <<>>

\* the chars grid is rectangular: rows of one length, the longest dedented
\* row's, the shorter rows padded on the right with spaces; height and width
\* are the row count and that length
Rectangular(f) ==
    /\ \A i \in 1..Len(f.chars) : Len(f.chars[i]) = f.width
    /\ f.height = Len(f.chars)
    /\ \A i \in 1..Len(DedentedInput) : Len(DedentedInput[i]) <= f.width
    /\ DedentedInput # <<>> =>
          /\ Len(f.chars) = Len(DedentedInput)
          /\ \E i \in 1..Len(DedentedInput) : Len(DedentedInput[i]) = f.width
          /\ \A i \in 1..Len(f.chars) : \A j \in 1..f.width :
                f.chars[i][j] = IF j <= Len(DedentedInput[i])
                                THEN DedentedInput[i][j] ELSE " "

\* fg_colors has the shape of chars and holds the table's colour for the
\* mapped characters of the pattern and None elsewhere, padding included
ColoursOf(f, table) ==
    /\ f.fg_colors # None
    /\ Len(f.fg_colors[1]) = Len(f.chars)
    /\ \A i \in 1..Len(f.chars) :
          /\ Len(f.fg_colors[1][i]) = Len(f.chars[i])
          /\ \A j \in 1..Len(f.chars[i]) :
                f.fg_colors[1][i][j] =
                   IF j <= Len(DedentedInput[i]) /\ f.chars[i][j] \in DOMAIN table
                   THEN table[f.chars[i][j]] ELSE NoColor

\* C29 as stated: for every pattern string the frame built is rectangular,
\* and when a char_colors table is given fg_colors has the shape of chars,
\* with the table's colour for mapped characters and None elsewhere.
C29_RectangularColoured ==
    pout.op = "create_sprite" =>
        LET f == pout.ret.frames[1]
        IN  /\ Rectangular(f)
            /\ pcolors # None => ColoursOf(f, pcolors[1])

\* C29: for every pattern string the frame built is rectangular; when a
\* char_colors table that is not empty is given and the pattern has a
\* non-blank line, fg_colors has the shape of chars, with the table's colour
\* for mapped characters and None elsewhere; otherwise fg_colors is None.
C29_RectangularColouredIfAny ==
    pout.op = "create_sprite" =>
        LET f == pout.ret.frames[1]
        IN  /\ Rectangular(f)
            /\ IF Truthy(pcolors) /\ DedentedInput # <<>>
               THEN ColoursOf(f, pcolors[1])
               ELSE f.fg_colors = None

\* rows of different lengths with a mapped character, a mapped space inside
\* a row and, in a shorter row, padding that carries no colour
C29_Witness ==
    /\ pout.op = "create_sprite"
    /\ Truthy(pcolors) /\ " " \in DOMAIN pcolors[1]
    /\ Len(DedentedInput) >= 2
    /\ LET f == pout.ret.frames[1]
       IN  /\ \E i \in 1..f.height : \E j, k \in 1..f.width :
                /\ f.fg_colors[1][i][j] = "yellow"
                /\ f.chars[i][k] = " " /\ f.fg_colors[1][i][k] = "red"
           /\ \E i \in 1..f.height : \E l \in 1..f.width :
                /\ l > Len(DedentedInput[i])
                /\ f.chars[i][l] = " " /\ f.fg_colors[1][i][l] = NoColor

\* C30 as stated: for every pattern string, an empty or all-blank one
\* included, create_effect(pattern, x, y, vx, vy, fg, bg, drag, fade_time)
\* returns an alive, visible EffectSprite whose x, y, vx, vy, drag and
\* fade_time equal the arguments passed.
C30_EffectKeepsArguments ==
    pout.op = "create_effect" =>
        /\ pout.ret.alive /\ pout.ret.visible
        /\ pout.ret.x = pout.args.x /\ pout.ret.y = pout.args.y
        /\ pout.ret.vx = pout.args.vx /\ pout.ret.vy = pout.args.vy
        /\ pout.ret.drag = pout.args.drag
        /\ pout.ret.fade_time = pout.args.fade_time

----------------------------------------------------------------------------
(* Claims about the registry calls, checked under SpecReg *)

\* the entries of reg other than the one named name, in order
Others(reg, name) == SelectSeq(reg, LAMBDA w : w.name # name)

\* C15: the registry is a name -> Window map: after create_window(name, ...)
\* returns W, get_window(name) returns W; on an already registered name the
\* previous Window is replaced (it is no longer in the registry, and there is
\* still exactly one entry for the name); remove_window(name) on an absent
\* name leaves the registry unchanged, and after remove_window(name) on a
\* present name get_window(name) fails. No call touches another name's entry.
C15_RegistryIsMap ==
    /\ \A i, j \in 1..Len(windows) :
          windows[i].name = windows[j].name => i = j
    /\ (rcall.op = "create_window" /\ rcall.ret.raised = "none") =>
          /\ get_window(windows, rcall.name).ret = rcall.ret
          /\ IndexOf(rprev, rcall.name) # 0 =>
                /\ rprev[IndexOf(rprev, rcall.name)].id \notin Ids(windows)
                /\ Len(windows) = Len(rprev)
          /\ IndexOf(rprev, rcall.name) = 0 => Len(windows) = Len(rprev) + 1
          /\ Others(windows, rcall.name) = Others(rprev, rcall.name)
    /\ rcall.op = "remove_window" =>
          /\ IndexOf(rprev, rcall.name) = 0 => windows = rprev
          /\ get_window(windows, rcall.name).ret.raised = "KeyError"
          /\ Others(windows, rcall.name) = Others(rprev, rcall.name)

\* create_window on a name that was registered, beside another window
C15_Witness ==
    /\ rcall.op = "create_window" /\ rcall.ret.raised = "none"
    /\ IndexOf(rprev, rcall.name) # 0
    /\ Len(rprev) >= 2

\* C16: get_window(name) for a name that is not registered raises KeyError
\* to the caller, creates no entry and leaves the registry unchanged.
C16_GetUnknownFails ==
    (rcall.op = "get_window" /\ IndexOf(rprev, rcall.name) = 0) =>
        /\ rcall.ret.raised = "KeyError"
        /\ windows = rprev

\* a lookup of a name that is absent from a registry of two windows
C16_Witness ==
    /\ rcall.op = "get_window"
    /\ IndexOf(rprev, rcall.name) = 0
    /\ Len(rprev) >= 2

\* C17: create_window with a font name that is not one of the available
\* fonts raises ValueError listing the valid names and leaves the registry
\* unchanged: no window is registered under the name, and a window already
\* registered under it is not replaced.
C17_UnknownFontFails ==
    (rcall.op = "create_window" /\ rcall.font_name \notin AVAILABLE_FONTS) =>
        /\ rcall.ret.raised = "ValueError"
        /\ rcall.ret.listed = AVAILABLE_FONTS
        /\ windows = rprev

\* an unknown font asked for under a name that is registered
C17_Witness ==
    /\ rcall.op = "create_window"
    /\ rcall.font_name \notin AVAILABLE_FONTS
    /\ IndexOf(rprev, rcall.name) # 0
    /\ rcall.name # "root"

----------------------------------------------------------------------------
(* Claims about the two copies of the pattern parser, checked under SpecPattern *)

\* C35: for every pattern and char_colors table, the frame of the
\* EffectSprite that create_effect returns is the frame create_sprite builds
\* from the same pattern and table: same chars grid, same fg_colors grid
C35_SameFrameAsCreateSprite ==
    pout.op = "create_effect" =>
        LET f == pout.ret.frames
            g == create_sprite(pattern, pcolors).frames
        IN  /\ Len(f) = 1 /\ Len(g) = 1
            /\ f[1].chars = g[1].chars
            /\ f[1].fg_colors = g[1].fg_colors
            /\ f[1] = g[1]

\* create_effect on a pattern with a blank first line, an indented row and a
\* shorter row, with a colour for '@': the row is padded and coloured
C35_Witness ==
    /\ pout.op = "create_effect"
    /\ pattern = << "\n", " ", "@", "\n", "#" >>
    /\ pcolors = Some([ c \in { "@" } |-> "yellow" ])
    /\ pout.ret.frames[1].chars = << << " ", "@" >>, << "#", " " >> >>
    /\ pout.ret.frames[1].fg_colors =
          Some(<< << NoColor, "yellow" >>, << NoColor, NoColor >> >>)

----------------------------------------------------------------------------
(* Claims about quit() and the running flag, checked under SpecFrame *)

\* the alpha of each window as create_window left it: no client has set one
AlphasUntouched ==
    [ i \in 1..Len(windows) |-> windows[i].alpha ] = << 255, 128, 255 >>

\* C36: a quit() made before run() is entered does not reach the loop: run
\* sets the flag on entry, so while run executes and no stop has been
\* signalled during this run the flag is True and ticks go on, and the loop
\* is left only after a stop signalled while run was executing
C36_QuitBeforeRunIgnored ==
    /\ (pc \notin { "idle", "done" } /\ stopped = "no") => running
    /\ pc = "done" => stopped \notin { "no", "idle" }
    /\ (pc = "idle" /\ ops > 0 /\ AlphasUntouched) => (~running /\ stopped = "no")

\* quit() was the one client call, made before run(): the flag is True and
\* the first tick has come to its flip
C36_Witness ==
    /\ pc = "present"
    /\ ops = 1
    /\ AlphasUntouched
    /\ stopped = "no"
    /\ running
    /\ displayed = <<>>

----------------------------------------------------------------------------
(* Claims about the registry order and compositing, checked under SpecReg *)

\* the names of the windows in the order the compositing loop of run()
\* would blit them, were a tick to run on this registry
BlitOrder(reg) ==
    LET b == CompositeLoop(reg, sorted(reg), <<>>)[2]
    IN  [ i \in 1..Len(b) |-> b[i].name ]

\* the place of a name in a sequence of names, 0 if it is not there
Place(names, n) ==
    IF \E i \in 1..Len(names) : names[i] = n
    THEN CHOOSE i \in 1..Len(names) : names[i] = n
    ELSE 0

\* the windows of a registry that share the z_index of the window of that name
Peers(reg, name) ==
    { reg[j].name : j \in { k \in 1..Len(reg) :
        reg[k].name # name /\ reg[k].z_index = reg[IndexOf(reg, name)].z_index } }

\* C37: create_window on a registered name replaces the Window at the
\* name's old position in the iteration order, so among windows of equal
\* z_index it is composited before exactly the windows that follow that
\* position, and not last; created under a name that is not registered (as
\* after remove_window) the window goes to the end and is composited after
\* every window of equal z_index
C37_RecreateKeepsPosition ==
    (rcall.op = "create_window" /\ rcall.ret.raised = "none") =>
        LET n == rcall.name
            old == IndexOf(rprev, n)
            new == IndexOf(windows, n)
            order == BlitOrder(windows)
        IN  /\ windows[new].id = rcall.ret.id
            /\ old # 0 =>
                  /\ new = old
                  /\ [ i \in 1..Len(windows) |-> windows[i].name ] =
                        [ i \in 1..Len(rprev) |-> rprev[i].name ]
                  /\ \A p \in Peers(windows, n) :
                        Place(order, n) < Place(order, p) <=> old < IndexOf(rprev, p)
            /\ old = 0 =>
                  /\ new = Len(windows)
                  /\ \A p \in Peers(windows, n) : Place(order, p) < Place(order, n)

\* a window re-created under its name with the z_index of a window created
\* after it: the new Window is still composited before that one
C37_Witness ==
    /\ rcall.op = "create_window" /\ rcall.ret.raised = "none"
    /\ IndexOf(rprev, rcall.name) # 0
    /\ rprev[IndexOf(rprev, rcall.name)].id # rcall.ret.id
    /\ \E p \in Peers(windows, rcall.name) :
          /\ IndexOf(rprev, rcall.name) < IndexOf(rprev, p)
          /\ Place(BlitOrder(windows), rcall.name) < Place(BlitOrder(windows), p)

----------------------------------------------------------------------------
(* Claims about drawing, checked under SpecDraw *)

\* base_alpha * (1 - elapsed/fade_time) truncated to an integer and clamped
\* to [0, base_alpha], or base_alpha where there is no fade, computed on the
\* numerators and denominators
FadeAlpha(e) ==
    IF e.fade_time[1] = 0 THEN e.initial_alpha
    ELSE LET num == e.initial_alpha *
                    (e.fade_time[1] * e.fade_elapsed[2] - e.fade_elapsed[1] * e.fade_time[2])
             den == e.fade_time[1] * e.fade_elapsed[2]
             t == num \div den
         IN  IF t < 0 THEN 0 ELSE IF t > e.initial_alpha THEN e.initial_alpha ELSE t

\* C33: every pixel draw of an EffectSprite carries the alpha 255 where
\* fade_time = 0 and else 255 * (1 - elapsed/fade_time) truncated and
\* clamped to [0, 255]; an update with dt >= 0 never raises that alpha; and
\* an EffectSprite that is not visible draws nothing
C33_FadeAlpha ==
    dobj.kind = "EffectSprite" =>
        /\ dout.op = "draw" =>
              /\ \A i \in 1..Len(dout.calls) : dout.calls[i].alpha = FadeAlpha(dobj.obj)
              /\ ~dobj.obj.visible => dout.calls = <<>>
        /\ (dout.op = "update" /\ RLeq(RInt(0), dout.dt)) =>
              /\ FadeAlpha(dobj.obj) <= FadeAlpha(dprev.obj)
              /\ ~dobj.obj.alive => ~dobj.obj.visible

\* the chars grid a draw reads: that of the current frame, none without a frame
GridOf(o) == IF o.frames = <<>> THEN <<>> ELSE o.frames[o.current_frame + 1].chars

\* the cells (row, col), counted from 0, that hold a character other than the space
GlyphCells(grid) ==
    { rc \in (0..MaxPattern) \X (0..MaxPattern) :
        /\ rc[1] < Len(grid)
        /\ rc[2] < Len(grid[rc[1] + 1])
        /\ grid[rc[1] + 1][rc[2] + 1] # " " }

\* the base position of a draw in px: the visual position of a Sprite, the
\* cell position times the cell size of an EffectSprite
BaseOf(d, cw, ch) ==
    IF d.kind = "Sprite"
    THEN << Rat(d.obj.visual_x, FPS), Rat(d.obj.visual_y, FPS) >>
    ELSE << RMul(d.obj.x, RInt(cw)), RMul(d.obj.y, RInt(ch)) >>

\* the position of a recorded pixel draw in px
CallAt(d, call) ==
    IF d.kind = "Sprite" THEN << Rat(call.px, FPS), Rat(call.py, FPS) >>
    ELSE << call.px, call.py >>

\* the pixel draws recorded are exactly one per non-space character of the
\* current frame, the character at (row, col) at (base_x + (col - origin_x)
\* * cell_w, base_y + (row - origin_y) * cell_h)
GlyphsDrawn ==
    LET o == dobj.obj
        grid == GridOf(o)
        base == BaseOf(dobj, dcell[1], dcell[2])
        Expected(rc) ==
            << RAdd(base[1], RInt((rc[2] - o.origin[1]) * dcell[1])),
               RAdd(base[2], RInt((rc[1] - o.origin[2]) * dcell[2])) >>
        Hits(rc) ==
            { i \in 1..Len(dout.calls) : CallAt(dobj, dout.calls[i]) = Expected(rc) }
    IN  /\ Len(dout.calls) = Cardinality(GlyphCells(grid))
        /\ \A rc \in GlyphCells(grid) :
              /\ Cardinality(Hits(rc)) = 1
              /\ \A i \in Hits(rc) : dout.calls[i].char = grid[rc[1] + 1][rc[2] + 1]

\* the frame read by a draw has no character at all
NoGlyphs ==
    dobj.obj.frames = <<>> \/ GridOf(dobj.obj) \in { <<>>, << <<>> >> }

\* C34: a draw of a Sprite, or of an EffectSprite that is visible, issues
\* exactly one pixel draw per non-space character of the current frame, at
\* the position the origin and the base position give; an EffectSprite that
\* is not visible issues none; spaces, an empty frame list and an empty
\* chars grid issue no draw; and the draw leaves the sprite as it was
C34_OneDrawPerGlyph ==
    dout.op = "draw" =>
        /\ dobj = dprev
        /\ IF dobj.kind = "Sprite" \/ dobj.obj.visible
           THEN GlyphsDrawn ELSE dout.calls = <<>>
        /\ NoGlyphs => dout.calls = <<>>

\* C34 as first stated: every draw of a Sprite or EffectSprite, visible or
\* not, issues one pixel draw per non-space character
C34_DrawsEveryGlyph ==
    dout.op = "draw" =>
        /\ dobj = dprev
        /\ GlyphsDrawn
        /\ NoGlyphs => dout.calls = <<>>

\* a Sprite anchored one cell in, drawn part of the way through its glide:
\* its frame "@ / #" has two glyphs and two spaces, and two draws are issued
C34_Witness ==
    /\ dout.op = "draw"
    /\ dobj.kind = "Sprite"
    /\ dobj.obj.origin = << 1, 1 >>
    /\ GridOf(dobj.obj) = << << "@", " " >>, << " ", "#" >> >>
    /\ Len(dout.calls) = 2
    /\ dobj.obj.visual_x \notin { 0, dobj.obj.x * dcell[1] * FPS }

====
